---------------------------- MODULE Spec2Model ----------------------------
(***************************************************************************)
(* The rule evaluation and correction-ranking engine of fasterthefuck:     *)
(* the Rule trait with its derived get_corrected_commands, the literal     *)
(* rule of SimpleRuleBuilder, the RuleRegistry and the Corrector pipeline  *)
(* (parallel filter / flat_map / collect, then sort and dedup).            *)
(*                                                                         *)
(* Text (String) is a sequence of one-character strings.  Option<T> is a   *)
(* sequence of length at most one: <<>> is None and <<x>> is Some(x).      *)
(***************************************************************************)
EXTENDS Integers, Sequences, FiniteSets, TLC

VARIABLES
    registry,           \* RuleRegistry.rules: Vec<Box<dyn Rule>>
    added,              \* history: every rule handed to add_rule/add_rules
    command,            \* the Command under evaluation
    overflow_checks,    \* build profile: TRUE = overflow panics, FALSE = wraps
    pc,                 \* "registry" | "idle" | "running" | "panicked"
    call,               \* entry point in flight or last returned
    evaluated,          \* rules whose filter/flat_map closures have run
    invoked,            \* history: per rule, the trait methods called on it
    produced,           \* per rule: what its flat_map closure yielded
    order,              \* rule indices in the order the workers finished
    corrections,        \* Vec returned by the latest get_corrections
    best,               \* Option returned by the latest get_best_correction
    previous,           \* Vec returned by the call before the latest one
    previous_order,     \* order in which the workers of that call finished
    runs,               \* number of calls that have returned
    rule,               \* the rule a single trait method is applied to
    score,              \* what SkimMatcherV2::fuzzy_match answers per field
    upc,                \* "ready" | "returned" | "panicked"
    new_commands,       \* Vec<String> returned by get_new_commands
    corrected_commands, \* Vec<CorrectedCommand> of get_corrected_commands
    matched,            \* Option<bool>: what rule.matches returned
    builder,            \* the RegexRuleBuilder / FuzzyRuleBuilder in use
    bpc,                \* "building" | "built" | "failed" | "unused"
    built,              \* Option<rule>: the rule build() produced
    calls,              \* history: setter calls made on the builder
    config,             \* Result of loading the Config: None is Err
    no_interaction,     \* Args.no_interaction
    stdin,              \* Result of read_line: None is Err, else the line
    stdout,             \* the lines main has printed
    exit_status,        \* Option: the exit code of the process
    mpc                 \* position of main

vars == <<registry, added, command, overflow_checks, pc, call, evaluated,
          invoked, produced, order, corrections, best, previous,
          previous_order, runs, rule, score, upc, new_commands,
          corrected_commands, matched, builder, bpc, built, calls, config,
          no_interaction, stdin, stdout, exit_status, mpc>>

pipeline_vars == <<registry, added, pc, call, evaluated, invoked, produced,
                   order, corrections, best, previous, previous_order, runs>>

unit_vars == <<rule, score, upc, new_commands, corrected_commands, matched>>

builder_vars == <<builder, bpc, built, calls>>

main_vars == <<config, no_interaction, stdin, stdout, exit_status, mpc>>

-----------------------------------------------------------------------------
(* Bounds of the model.                                                    *)

MaxRules == 2
MaxRuns == 2
MaxSuggestions == 2
MaxUnitSuggestions == 3
MaxScriptLen == 3

-----------------------------------------------------------------------------
(* 32-bit signed arithmetic of CorrectedCommand.priority (i32).            *)

I32Max == 2147483647
I32Min == -I32Max - 1
DefaultPriority == 1000

None == <<>>
Some(x) == <<x>>

AddOverflows(a, b) ==
    \/ a > 0 /\ b > 0 /\ a > I32Max - b
    \/ a < 0 /\ b < 0 /\ a < I32Min - b

\* a + b modulo 2^32, in the signed range; no intermediate leaves the range
WrappingAdd(a, b) ==
    IF a > 0 /\ b > 0 /\ a > I32Max - b THEN (a + I32Min) + (b + I32Min)
    ELSE IF a < 0 /\ b < 0 /\ a < I32Min - b THEN (a - I32Min) + (b - I32Min)
    ELSE a + b

\* k * p modulo 2^32 for a count k >= 1, as k-fold wrapping addition
RECURSIVE WrappingMul(_, _)
WrappingMul(k, p) ==
    IF k <= 1 THEN p ELSE WrappingAdd(WrappingMul(k - 1, p), p)

\* whether the exact product k * p leaves the i32 range (the partial sums
\* of one sign are monotone, so the first overflowing addition decides)
RECURSIVE MulOverflows(_, _)
MulOverflows(k, p) ==
    IF k <= 1 THEN FALSE
    ELSE MulOverflows(k - 1, p) \/ AddOverflows(WrappingMul(k - 1, p), p)

-----------------------------------------------------------------------------
(* Text operations of the standard library used by the literal rule.       *)

\* str::contains with a string pattern
contains(s, p) ==
    \E i \in 0..(Len(s) - Len(p)) : SubSeq(s, i + 1, i + Len(p)) = p

\* str::replace: the matches of `from` are found left to right without
\* overlap (an empty `from` matches at every character boundary, the two
\* ends included); each is replaced by `to`, the text between is copied
RECURSIVE ReplaceScan(_, _, _, _)
ReplaceScan(s, from, to, pos) ==
    IF pos + Len(from) <= Len(s) /\ SubSeq(s, pos + 1, pos + Len(from)) = from
    THEN IF Len(from) = 0
         THEN IF pos < Len(s)
              THEN to \o <<s[pos + 1]>> \o ReplaceScan(s, from, to, pos + 1)
              ELSE to
         ELSE to \o ReplaceScan(s, from, to, pos + Len(from))
    ELSE IF pos >= Len(s) THEN <<>>
         ELSE <<s[pos + 1]>> \o ReplaceScan(s, from, to, pos + 1)

\* a plausible slip: only the first match is replaced (str::replacen(.., 1))
RECURSIVE ReplaceFirstScan(_, _, _, _)
ReplaceFirstScan(s, from, to, pos) ==
    IF pos + Len(from) <= Len(s) /\ SubSeq(s, pos + 1, pos + Len(from)) = from
    THEN to \o SubSeq(s, pos + Len(from) + 1, Len(s))
    ELSE IF pos >= Len(s) THEN <<>>
         ELSE <<s[pos + 1]>> \o ReplaceFirstScan(s, from, to, pos + 1)

replace_first(s, from, to) == ReplaceFirstScan(s, from, to, 0)

replace(s, from, to) == ReplaceScan(s, from, to, 0)

-----------------------------------------------------------------------------
(* Value types.                                                            *)

-----------------------------------------------------------------------------
(* The fragment of the regex crate the rules use.  A compiled pattern is   *)
(* its token sequence: "(" and ")" delimit a capture group, "[a-z]+" is a  *)
(* greedy run of lower-case letters, "[a-z_-]+" one of lower-case letters, *)
(* "_" and "-", "$" is the end of the text, any other token is a literal   *)
(* character.                                                              *)

Lower ==
    {"a", "b", "c", "d", "e", "f", "g", "h", "i", "j", "k", "l", "m", "n",
     "o", "p", "q", "r", "s", "t", "u", "v", "w", "x", "y", "z"}

\* the characters of a class
ClassChars(t) == IF t = "[a-z]+" THEN Lower ELSE Lower \cup {"_", "-"}

RECURSIVE ParenDepth(_, _)
\* nesting depth after the tokens, -1 once a ")" closes nothing
ParenDepth(toks, d) ==
    IF d < 0 \/ toks = <<>> THEN d
    ELSE IF Head(toks) = "(" THEN ParenDepth(Tail(toks), d + 1)
    ELSE IF Head(toks) = ")" THEN ParenDepth(Tail(toks), d - 1)
    ELSE ParenDepth(Tail(toks), d)

\* Regex::new(pattern) is Ok: in this fragment, the parentheses balance
regex_valid(toks) == ParenDepth(toks, 0) = 0

RECURSIVE CloseLast(_, _, _)
\* the innermost group still open, at index <= k, ends at pos
CloseLast(caps, k, pos) ==
    IF k = 0 THEN caps
    ELSE IF caps[k][2] = -1 THEN [caps EXCEPT ![k] = <<caps[k][1], pos>>]
    ELSE CloseLast(caps, k - 1, pos)

\* length of the run of characters of the class after position pos
RECURSIVE Run(_, _, _)
Run(text, pos, chars) ==
    IF pos < Len(text) /\ text[pos + 1] \in chars
    THEN 1 + Run(text, pos + 1, chars)
    ELSE 0

RECURSIVE MatchAt(_, _, _, _)
RECURSIVE TryRun(_, _, _, _, _)
\* the tokens matched against text from position pos on, by backtracking
\* with the greedy alternative first: Some(<<end, groups>>) or None
MatchAt(toks, text, pos, caps) ==
    IF toks = <<>> THEN Some(<<pos, caps>>)
    ELSE LET t == Head(toks)
             rest == Tail(toks)
         IN  IF t = "(" THEN MatchAt(rest, text, pos, Append(caps, <<pos, -1>>))
             ELSE IF t = ")"
             THEN MatchAt(rest, text, pos, CloseLast(caps, Len(caps), pos))
             ELSE IF t = "$"
             THEN IF pos = Len(text) THEN MatchAt(rest, text, pos, caps)
                  ELSE None
             ELSE IF t \in {"[a-z]+", "[a-z_-]+"}
             THEN TryRun(rest, text, pos, caps, Run(text, pos, ClassChars(t)))
             ELSE IF pos < Len(text) /\ text[pos + 1] = t
             THEN MatchAt(rest, text, pos + 1, caps)
             ELSE None

TryRun(rest, text, pos, caps, n) ==
    IF n < 1 THEN None
    ELSE LET m == MatchAt(rest, text, pos + n, caps)
         IN  IF m # None THEN m ELSE TryRun(rest, text, pos, caps, n - 1)

RECURSIVE Find(_, _, _)
\* the leftmost match at or after position start
Find(toks, text, start) ==
    IF start > Len(text) THEN None
    ELSE LET m == MatchAt(toks, text, start, <<>>)
         IN  IF m # None THEN Some(<<start, m[1][1], m[1][2]>>)
             ELSE Find(toks, text, start + 1)

\* Regex::is_match
is_match(toks, text) == Find(toks, text, 0) # None

\* Regex::captures: None, or Some of the texts of group 0 (the whole
\* match) and of the groups in the order of their opening parentheses
captures(toks, text) ==
    LET m == Find(toks, text, 0)
    IN  IF m = None THEN None
        ELSE LET groups == m[1][3]
             IN  Some(<<SubSeq(text, m[1][1] + 1, m[1][2])>> \o
                      [g \in 1..Len(groups) |->
                          SubSeq(text, groups[g][1] + 1, groups[g][2])])

Digits == <<"0", "1", "2", "3", "4", "5", "6", "7", "8", "9">>

RECURSIVE Decimal(_)
\* format!("{}", i) of a usize
Decimal(i) ==
    IF i < 10 THEN <<Digits[i + 1]>>
    ELSE Decimal(i \div 10) \o <<Digits[(i % 10) + 1]>>

RECURSIVE SubstituteFrom(_, _, _)
\* the loop of replace_simple over the groups i, i + 1, ...: every "$i"
\* of the text so far is replaced by the text of group i
SubstituteFrom(result, caps, i) ==
    IF i >= Len(caps) THEN result
    ELSE SubstituteFrom(replace(result, <<"$">> \o Decimal(i), caps[i + 1]), caps, i + 1)

\* the closure without its fallback to the original script
simple_replacement_no_fallback(template, original, caps) ==
    <<SubstituteFrom(template, caps, 0)>>

\* the closure replace_simple hands to replace_with
simple_replacement(template, original, caps) ==
    LET result == SubstituteFrom(template, caps, 0)
    IN  IF result = template THEN <<original>> ELSE <<result>>

\* a closure a caller hands to replace_with: this one returns everything
\* it was given, the original script and then the groups
echo_replacement(original, caps) == <<original>> \o caps

\* the closure of create_git_branch_exists: "git checkout -b " and group
\* 1, or nothing if there is no group 1
checkout_replacement(original, caps) ==
    IF Len(caps) > 1
    THEN <<<<"g", "i", "t", " ", "c", "h", "e", "c", "k", "o", "u", "t", " ",
             "-", "b", " ">> \o caps[2]>>
    ELSE <<>>

\* a replacement function is a pair <<tag, template>> of texts
TemplateFn(template) == << <<"template">>, template >>

EchoFn == << <<"echo">>, <<>> >>

CheckoutFn == << <<"checkout">>, <<>> >>

\* (self.replacement_fn)(original, &captures)
replacement_fn(fn, original, caps) ==
    IF fn[1] = <<"template">> THEN simple_replacement(fn[2], original, caps)
    ELSE IF fn[1] = <<"checkout">> THEN checkout_replacement(original, caps)
    ELSE echo_replacement(original, caps)

\* Command::new
Command(script, output, exit_code) ==
    [script |-> script, output |-> output, exit_code |-> exit_code]

\* CorrectedCommand::new: no side effect
CorrectedCommand(script, priority) ==
    [script |-> script, priority |-> priority, side_effect |-> None]

\* impl PartialEq for CorrectedCommand: priority is not compared
eq(a, b) == a.script = b.script /\ a.side_effect = b.side_effect

\* impl Ord for CorrectedCommand: ordering is by priority alone
le(a, b) == a.priority <= b.priority

\* the scorer has answered for neither field
NoScore == [script |-> None, output |-> None]

-----------------------------------------------------------------------------
(* Rules.  A rule is a record; kind "custom" is any implementation of the  *)
(* trait with fixed answers (the TestRule of the tests), kind "simple" is  *)
(* the SimpleRule built by SimpleRuleBuilder.                              *)

CustomRule(name, matches_result, suggestions, priority, gated, enabled) ==
    [kind |-> "custom", name |-> name, priority |-> priority,
     requires_output |-> gated, enabled_by_default |-> enabled,
     matches_result |-> matches_result, suggestions |-> suggestions,
     match_cmd |-> None, match_out |-> None, replacement |-> None,
     threshold |-> 0]

\* a literal rule that overrides requires_output to false
SimpleRule_not_gated(name, match_cmd, match_out, replacement, priority) ==
    [kind |-> "simple", name |-> name, priority |-> priority,
     requires_output |-> FALSE, enabled_by_default |-> TRUE,
     matches_result |-> TRUE, suggestions |-> <<>>,
     match_cmd |-> match_cmd, match_out |-> match_out,
     replacement |-> replacement, threshold |-> 0]

\* SimpleRuleBuilder::new(name) .match_command .match_output .priority
\* .replace(old, new); requires_output and enabled_by_default are the
\* trait defaults, which SimpleRule does not override
SimpleRule(name, match_cmd, match_out, replacement, priority) ==
    [kind |-> "simple", name |-> name, priority |-> priority,
     requires_output |-> TRUE, enabled_by_default |-> TRUE,
     matches_result |-> TRUE, suggestions |-> <<>>,
     match_cmd |-> match_cmd, match_out |-> match_out,
     replacement |-> replacement, threshold |-> 0]

\* struct RegexRule: the patterns are compiled, the replacement function
\* is always there; the trait defaults are not overridden
RegexRule(name, command_pattern, output_pattern, fn, priority) ==
    [kind |-> "regex", name |-> name, priority |-> priority,
     requires_output |-> TRUE, enabled_by_default |-> TRUE,
     matches_result |-> TRUE, suggestions |-> <<>>,
     match_cmd |-> command_pattern, match_out |-> output_pattern,
     replacement |-> Some(fn), threshold |-> 0]

\* struct FuzzyRule: the targets, the fixed replacement and the threshold
FuzzyRule(name, command_pattern, output_pattern, replacement, min_score, priority) ==
    [kind |-> "fuzzy", name |-> name, priority |-> priority,
     requires_output |-> TRUE, enabled_by_default |-> TRUE,
     matches_result |-> TRUE, suggestions |-> <<>>,
     match_cmd |-> command_pattern, match_out |-> output_pattern,
     replacement |-> Some(<<replacement>>), threshold |-> min_score]

\* a score equal to the threshold is enough
fuzzy_matches_at_least(r, answer) ==
    IF answer = None THEN FALSE ELSE answer[1] >= r.threshold

\* the score has to stay below the threshold
fuzzy_matches_below(r, answer) ==
    IF answer = None THEN FALSE ELSE answer[1] < r.threshold

\* FuzzyRule::fuzzy_matches on the answer of SkimMatcherV2::fuzzy_match
\* for the field: a score has to be strictly above the threshold, and no
\* score is no match
fuzzy_matches(r, answer) ==
    IF answer = None THEN FALSE ELSE answer[1] > r.threshold

\* SimpleRule::matches
simple_rule_matches(r, c) ==
    LET cmd_match == IF r.match_cmd = None THEN TRUE
                     ELSE contains(c.script, r.match_cmd[1])
        out_match == IF r.match_out = None THEN TRUE
                     ELSE contains(c.output, r.match_out[1])
    IN  cmd_match /\ out_match

\* RegexRule::matches
regex_rule_matches(r, c) ==
    LET cmd_matches == IF r.match_cmd = None THEN TRUE
                       ELSE is_match(r.match_cmd[1], c.script)
        out_matches == IF r.match_out = None THEN TRUE
                       ELSE is_match(r.match_out[1], c.output)
    IN  cmd_matches /\ out_matches

\* FuzzyRule::matches; the scorer is the library's, its answers for the
\* two fields of the command are in score
fuzzy_rule_matches(r, c) ==
    LET cmd_match == IF r.match_cmd = None THEN TRUE
                     ELSE fuzzy_matches(r, score.script)
        out_match == IF r.match_out = None THEN TRUE
                     ELSE fuzzy_matches(r, score.output)
    IN  cmd_match /\ out_match

matches(r, c) ==
    IF r.kind = "simple" THEN simple_rule_matches(r, c)
    ELSE IF r.kind = "regex" THEN regex_rule_matches(r, c)
    ELSE IF r.kind = "fuzzy" THEN fuzzy_rule_matches(r, c)
    ELSE r.matches_result

\* RegexRule::get_new_commands with the output pattern asked first
regex_rule_get_new_commands_output_first(r, c) ==
    LET script_caps == IF r.match_cmd = None THEN None
                       ELSE captures(r.match_cmd[1], c.script)
        output_caps == IF r.match_out = None THEN None
                       ELSE captures(r.match_out[1], c.output)
    IN  IF output_caps # None
        THEN replacement_fn(r.replacement[1], c.script, output_caps[1])
        ELSE IF script_caps # None
        THEN replacement_fn(r.replacement[1], c.script, script_caps[1])
        ELSE <<>>

\* the calls of (self.replacement_fn) RegexRule::get_new_commands makes,
\* each with its two arguments: one call in the first if let that gives
\* groups, none where neither does
regex_rule_replacement_calls(r, c) ==
    LET script_caps == IF r.match_cmd = None THEN None
                       ELSE captures(r.match_cmd[1], c.script)
        output_caps == IF r.match_out = None THEN None
                       ELSE captures(r.match_out[1], c.output)
    IN  IF script_caps # None
        THEN <<[original |-> c.script, caps |-> script_caps[1]]>>
        ELSE IF output_caps # None
        THEN <<[original |-> c.script, caps |-> output_caps[1]]>>
        ELSE <<>>

\* RegexRule::get_new_commands: the groups of the script pattern if it is
\* set and matches, else those of the output pattern if it is set and
\* matches, else nothing
regex_rule_get_new_commands(r, c) ==
    LET script_caps == IF r.match_cmd = None THEN None
                       ELSE captures(r.match_cmd[1], c.script)
        output_caps == IF r.match_out = None THEN None
                       ELSE captures(r.match_out[1], c.output)
    IN  IF script_caps # None
        THEN replacement_fn(r.replacement[1], c.script, script_caps[1])
        ELSE IF output_caps # None
        THEN replacement_fn(r.replacement[1], c.script, output_caps[1])
        ELSE <<>>

get_new_commands(r, c) ==
    IF r.kind = "simple"
    THEN IF r.replacement # None
         THEN <<replace(c.script, r.replacement[1][1], r.replacement[1][2])>>
         ELSE <<>>
    ELSE IF r.kind = "regex" THEN regex_rule_get_new_commands(r, c)
    ELSE IF r.kind = "fuzzy" THEN <<r.replacement[1][1]>>
    ELSE r.suggestions

\* Rule::get_corrected_commands, wrapping build: the i-th candidate
\* (1-based here, i + 1 in the source) gets priority i * rule.priority()
get_corrected_commands(r, c) ==
    LET new == get_new_commands(r, c)
    IN  [i \in 1..Len(new) |-> CorrectedCommand(new[i], WrappingMul(i, r.priority))]

\* whether some multiplication of get_corrected_commands overflows i32
multiply_overflows(r, c) ==
    \E i \in 1..Len(get_new_commands(r, c)) : MulOverflows(i, r.priority)

-----------------------------------------------------------------------------
(* RegexRuleBuilder and FuzzyRuleBuilder.  A builder is a record of its    *)
(* fields; a method consuming self and returning Self maps a builder to a  *)
(* builder, a method returning Result maps it to an Option.                *)

DefaultThreshold == 20
MinThreshold == 0
MaxThreshold == 100

\* no builder in use
NoBuilder ==
    [kind |-> "none", name |-> "", command_pattern |-> None,
     output_pattern |-> None, replacement |-> None, threshold |-> 0,
     priority |-> 0]

\* nothing has been called on the builder
NoCalls ==
    [pattern |-> FALSE, replacement |-> FALSE, threshold |-> None,
     priority |-> None, last |-> None]

\* RegexRuleBuilder::new
RegexRuleBuilder_new(name) ==
    [kind |-> "regex", name |-> name, command_pattern |-> None,
     output_pattern |-> None, replacement |-> None, threshold |-> 0,
     priority |-> DefaultPriority]

\* match_command_regex taking any pattern as it is
RegexRuleBuilder_match_command_regex_unchecked(b, pattern) ==
    Some([b EXCEPT !.command_pattern = Some(pattern)])

\* RegexRuleBuilder::match_command_regex: Err for an invalid pattern
RegexRuleBuilder_match_command_regex(b, pattern) ==
    IF regex_valid(pattern)
    THEN Some([b EXCEPT !.command_pattern = Some(pattern)])
    ELSE None

\* RegexRuleBuilder::match_output_regex: Err for an invalid pattern
RegexRuleBuilder_match_output_regex(b, pattern) ==
    IF regex_valid(pattern)
    THEN Some([b EXCEPT !.output_pattern = Some(pattern)])
    ELSE None

\* RegexRuleBuilder::priority
RegexRuleBuilder_priority(b, p) == [b EXCEPT !.priority = p]

\* RegexRuleBuilder::replace_with
RegexRuleBuilder_replace_with(b, fn) == [b EXCEPT !.replacement = Some(fn)]

\* build without the check for a pattern
RegexRuleBuilder_build_without_pattern(b) ==
    IF b.replacement = None THEN None
    ELSE Some(RegexRule(b.name, b.command_pattern, b.output_pattern, b.replacement[1], b.priority))

\* RegexRuleBuilder::build: Err without any pattern, Err without a
\* replacement function
RegexRuleBuilder_build(b) ==
    IF b.command_pattern = None /\ b.output_pattern = None THEN None
    ELSE IF b.replacement = None THEN None
    ELSE Some(RegexRule(b.name, b.command_pattern, b.output_pattern, b.replacement[1], b.priority))

\* RegexRuleBuilder::replace_simple: replace_with(closure).build()
RegexRuleBuilder_replace_simple(b, template) ==
    RegexRuleBuilder_build(RegexRuleBuilder_replace_with(b, TemplateFn(template)))

\* FuzzyRuleBuilder::new
FuzzyRuleBuilder_new(name) ==
    [kind |-> "fuzzy", name |-> name, command_pattern |-> None,
     output_pattern |-> None, replacement |-> None,
     threshold |-> DefaultThreshold, priority |-> DefaultPriority]

\* FuzzyRuleBuilder::match_command
FuzzyRuleBuilder_match_command(b, pattern) ==
    [b EXCEPT !.command_pattern = Some(pattern)]

\* FuzzyRuleBuilder::match_output
FuzzyRuleBuilder_match_output(b, pattern) ==
    [b EXCEPT !.output_pattern = Some(pattern)]

\* i64::max and i64::min
max(a, b) == IF a >= b THEN a ELSE b

min(a, b) == IF a <= b THEN a ELSE b

\* threshold without the clamp
FuzzyRuleBuilder_threshold_unclamped(b, t) == [b EXCEPT !.threshold = t]

\* FuzzyRuleBuilder::threshold: t.max(0).min(100)
FuzzyRuleBuilder_threshold(b, t) ==
    [b EXCEPT !.threshold = min(max(t, MinThreshold), MaxThreshold)]

\* FuzzyRuleBuilder::priority
FuzzyRuleBuilder_priority(b, p) == [b EXCEPT !.priority = p]

\* FuzzyRuleBuilder::replace
FuzzyRuleBuilder_replace(b, replacement) ==
    [b EXCEPT !.replacement = Some(<<replacement>>)]

\* FuzzyRuleBuilder::build: Err without any target, Err without a
\* replacement
FuzzyRuleBuilder_build(b) ==
    IF b.command_pattern = None /\ b.output_pattern = None THEN None
    ELSE IF b.replacement = None THEN None
    ELSE Some(FuzzyRule(b.name, b.command_pattern, b.output_pattern, b.replacement[1][1], b.threshold, b.priority))

-----------------------------------------------------------------------------
(* The stages of Corrector::get_corrections.                               *)

\* the filter closure with the output gate left out
rule_filter_no_gate(r, c) == matches(r, c)

\* the filter closure with the match test left out
rule_filter_gate_only(r, c) ==
    ~(r.requires_output /\ c.output = <<>>)

\* the filter closure leaving out the rules not enabled by default
rule_filter_enabled_only(r, c) ==
    IF ~r.enabled_by_default THEN FALSE
    ELSE IF r.requires_output /\ c.output = <<>> THEN FALSE
    ELSE matches(r, c)

\* the filter closure: the output gate, then matches
rule_filter(r, c) ==
    IF r.requires_output /\ c.output = <<>> THEN FALSE ELSE matches(r, c)

\* the closures with matches consulted before the output gate
closure_calls_matches_first(r, c) ==
    IF ~matches(r, c) THEN <<"matches">>
    ELSE IF r.requires_output /\ c.output = <<>>
    THEN <<"matches", "requires_output">>
    ELSE <<"matches", "requires_output", "get_corrected_commands", "get_new_commands">>

\* the trait methods the filter and flat_map closures call on a rule, in
\* the order of the calls: requires_output, then matches unless the gate
\* returned early, then get_corrected_commands (which calls
\* get_new_commands) if the filter let the rule through
closure_calls(r, c) ==
    IF r.requires_output /\ c.output = <<>> THEN <<"requires_output">>
    ELSE IF ~matches(r, c) THEN <<"requires_output", "matches">>
    ELSE <<"requires_output", "matches", "get_corrected_commands", "get_new_commands">>

\* what one rule contributes: filter, then the flat_map closure
contribution(r, c) ==
    IF rule_filter(r, c) THEN get_corrected_commands(r, c) ELSE <<>>

\* whether evaluating the rule reaches an overflowing multiplication
contribution_overflows(r, c) ==
    rule_filter(r, c) /\ multiply_overflows(r, c)

RECURSIVE FlattenUpTo(_, _)
FlattenUpTo(prod, n) ==
    IF n = 0 THEN <<>> ELSE FlattenUpTo(prod, n - 1) \o prod[n]

RECURSIVE FlattenAlong(_, _, _)
FlattenAlong(prod, ord, n) ==
    IF n = 0 THEN <<>> ELSE FlattenAlong(prod, ord, n - 1) \o prod[ord[n]]

\* gathering the workers' results as they finish (a shared push)
collect_completion_order(prod, ord) == FlattenAlong(prod, ord, Len(ord))

\* rayon's collect into a Vec keeps the order of the underlying slice,
\* whatever the order in which the workers finished
collect(prod, ord) == FlattenUpTo(prod, Len(prod))

\* insertion in front of the elements that compare equal
insert_before_equal(s, x) ==
    LET k == Cardinality({i \in 1..Len(s) : s[i].priority < x.priority})
    IN  SubSeq(s, 1, k) \o <<x>> \o SubSeq(s, k + 1, Len(s))

\* insertion behind every element that does not compare greater
Insert(s, x) ==
    LET k == Cardinality({i \in 1..Len(s) : le(s[i], x)})
    IN  SubSeq(s, 1, k) \o <<x>> \o SubSeq(s, k + 1, Len(s))

\* sorting left out
sort_skipped(s) == s

\* Vec::sort: stable, ascending by Ord (priority)
RECURSIVE sort(_)
sort(s) ==
    IF s = <<>> THEN <<>>
    ELSE Insert(sort(SubSeq(s, 1, Len(s) - 1)), s[Len(s)])

\* dedup with elements of the same priority taken for equal
RECURSIVE dedup_by_priority(_)
dedup_by_priority(s) ==
    IF Len(s) <= 1 THEN s
    ELSE LET d == dedup_by_priority(SubSeq(s, 1, Len(s) - 1))
         IN  IF d[Len(d)].priority = s[Len(s)].priority THEN d
             ELSE Append(d, s[Len(s)])

\* Vec::dedup: of each run of consecutive equal elements the first is kept
RECURSIVE dedup(_)
dedup(s) ==
    IF Len(s) <= 1 THEN s
    ELSE LET d == dedup(SubSeq(s, 1, Len(s) - 1))
         IN  IF eq(d[Len(d)], s[Len(s)]) THEN d ELSE Append(d, s[Len(s)])

\* the last element instead of the first
last_element(s) == IF s = <<>> THEN None ELSE Some(s[Len(s)])

\* into_iter().next()
first_element(s) == IF s = <<>> THEN None ELSE Some(s[1])

-----------------------------------------------------------------------------
(* Inputs of the pipeline.                                                 *)

CandidateScripts == {<<"a">>, <<"b">>}

SuggestionLists ==
    UNION {[1..n -> CandidateScripts] : n \in 0..MaxSuggestions}

\* two ordinary priorities and one whose double leaves the i32 range
PipelinePriorities == {100, 150, 1073741824}

CustomRules ==
    {CustomRule("test", m, s, p, g, TRUE) :
        m \in BOOLEAN, s \in SuggestionLists, p \in PipelinePriorities,
        g \in BOOLEAN}

\* literal rules turning the script aX into a or leaving it alone
SimpleRules ==
    {SimpleRule("simple", mc, None, Some(<< <<"X">>, <<>> >>), 150) :
        mc \in {None, Some(<<"X">>), Some(<<"Y">>)}}

PipelineRules == CustomRules \cup SimpleRules

PipelineCommands ==
    {Command(<<"a", "X">>, out, 1) : out \in {<<>>, <<"e">>}}

-----------------------------------------------------------------------------
(* The registry and the corrector.                                         *)

Init ==
    /\ registry = <<>>
    /\ added = <<>>
    /\ command \in PipelineCommands
    /\ overflow_checks \in BOOLEAN
    /\ pc = "registry"
    /\ call = "none"
    /\ evaluated = {}
    /\ invoked = <<>>
    /\ produced = <<>>
    /\ order = <<>>
    /\ corrections = <<>>
    /\ best = None
    /\ previous = <<>>
    /\ previous_order = <<>>
    /\ runs = 0
    /\ rule = CustomRule("test", TRUE, <<>>, DefaultPriority, TRUE, TRUE)
    /\ score = NoScore
    /\ upc = "unused"
    /\ new_commands = <<>>
    /\ corrected_commands = <<>>
    /\ matched = None
    /\ builder = NoBuilder
    /\ bpc = "unused"
    /\ built = None
    /\ calls = NoCalls
    /\ config = None
    /\ no_interaction = FALSE
    /\ stdin = None
    /\ stdout = <<>>
    /\ exit_status = None
    /\ mpc = "unused"

\* a registry that takes one rule per name
push_unless_named(v, r) ==
    IF \E i \in DOMAIN v : v[i].name = r.name THEN v ELSE Append(v, r)

\* the new rules put in front of the old ones
extend_front(v, rs) == rs \o v

\* Vec::push, Vec::extend, Vec::len and Vec::is_empty on the rule vector
push(v, r) == Append(v, r)

extend(v, rs) == v \o rs

len(v) == Len(v)

is_empty(v) == v = <<>>

\* RuleRegistry::rules: the vector as a slice
rules(v) == v

\* the vectors of at most n rules
RuleVectors(n) == UNION {[1..k -> PipelineRules] : k \in 0..n}

\* what a caller can pass to add_rules: the registry is the caller's until
\* into_corrector moves it, and the model gives it room for MaxRules
AddableVectors ==
    IF pc = "registry" THEN RuleVectors(MaxRules - Len(registry)) ELSE {}

\* RuleRegistry::add_rule
add_rule(r) ==
    /\ pc = "registry"
    /\ Len(registry) < MaxRules
    /\ registry' = push(registry, r)
    /\ added' = Append(added, r)
    /\ UNCHANGED <<command, overflow_checks, pc, call, evaluated, invoked, produced,
                   order, corrections, best, previous, previous_order, runs>>
    /\ UNCHANGED <<unit_vars, builder_vars, main_vars>>

\* RuleRegistry::add_rules: the whole vector is appended
add_rules(rs) ==
    /\ pc = "registry"
    /\ Len(registry) + Len(rs) <= MaxRules
    /\ registry' = extend(registry, rs)
    /\ added' = added \o rs
    /\ UNCHANGED <<command, overflow_checks, pc, call, evaluated, invoked, produced,
                   order, corrections, best, previous, previous_order, runs>>
    /\ UNCHANGED <<unit_vars, builder_vars, main_vars>>

\* Corrector::new / RuleRegistry::into_corrector: the registry is moved
\* into the corrector and is read-only from here on
into_corrector ==
    /\ pc = "registry"
    /\ pc' = "idle"
    /\ UNCHANGED <<registry, added, command, overflow_checks, call, evaluated, invoked,
                   produced, order, corrections, best, previous,
                   previous_order, runs>>
    /\ UNCHANGED <<unit_vars, builder_vars, main_vars>>

\* a caller enters get_corrections or get_best_correction (which calls
\* get_corrections): the parallel iterator over the rules starts
enter(entry) ==
    /\ pc = "idle"
    /\ runs < MaxRuns
    /\ pc' = "running"
    /\ call' = entry
    /\ evaluated' = {}
    /\ invoked' = [i \in 1..Len(registry) |-> <<>>]
    /\ produced' = [i \in 1..Len(registry) |-> <<>>]
    /\ order' = <<>>
    /\ previous_order' = order
    /\ UNCHANGED <<registry, added, command, overflow_checks, corrections, best,
                   previous, runs>>
    /\ UNCHANGED <<unit_vars, builder_vars, main_vars>>

\* one worker runs the filter and flat_map closures on rule i
evaluate_rule(i) ==
    /\ pc = "running"
    /\ i \in 1..Len(registry)
    /\ i \notin evaluated
    /\ ~(overflow_checks /\ contribution_overflows(registry[i], command))
    /\ produced' = [produced EXCEPT ![i] = contribution(registry[i], command)]
    /\ evaluated' = evaluated \cup {i}
    /\ invoked' = [invoked EXCEPT ![i] = closure_calls(registry[i], command)]
    /\ order' = Append(order, i)
    /\ UNCHANGED <<registry, added, command, overflow_checks, pc, call, corrections,
                   best, previous, previous_order, runs>>
    /\ UNCHANGED <<unit_vars, builder_vars, main_vars>>

\* with overflow checks the multiplication panics; rayon propagates the
\* panic to the caller and the call never returns
evaluate_rule_panics(i) ==
    /\ pc = "running"
    /\ i \in 1..Len(registry)
    /\ i \notin evaluated
    /\ overflow_checks /\ contribution_overflows(registry[i], command)
    /\ pc' = "panicked"
    /\ invoked' = [invoked EXCEPT ![i] = closure_calls(registry[i], command)]
    /\ UNCHANGED <<registry, added, command, overflow_checks, call, evaluated,
                   produced, order, corrections, best, previous,
                   previous_order, runs>>
    /\ UNCHANGED <<unit_vars, builder_vars, main_vars>>

\* every rule has been evaluated: collect, sort, dedup and return; the
\* best correction is the first element of that result
return_corrections ==
    /\ pc = "running"
    /\ evaluated = 1..Len(registry)
    /\ LET result == dedup(sort(collect(produced, order)))
       IN  /\ corrections' = result
           /\ best' = IF call = "get_best_correction"
                      THEN first_element(result) ELSE best
    /\ previous' = corrections
    /\ runs' = runs + 1
    /\ pc' = "idle"
    /\ UNCHANGED <<registry, added, command, overflow_checks, call, evaluated, invoked,
                   produced, order, previous_order>>
    /\ UNCHANGED <<unit_vars, builder_vars, main_vars>>

Next ==
    \/ \E r \in PipelineRules : add_rule(r)
    \/ \E rs \in AddableVectors : add_rules(rs)
    \/ into_corrector
    \/ \E entry \in {"get_corrections", "get_best_correction"} : enter(entry)
    \/ \E i \in 1..MaxRules : evaluate_rule(i)
    \/ \E i \in 1..MaxRules : evaluate_rule_panics(i)
    \/ return_corrections

Spec == Init /\ [][Next]_vars

-----------------------------------------------------------------------------
(* The trait methods applied to one rule and one command.                  *)

UnitScripts ==
    UNION {[1..n -> {"a", "X"}] : n \in 0..MaxScriptLen} \cup {<<"a", "X", "b">>}

UnitCommands == {Command(s, out, 1) : s \in UnitScripts, out \in {<<>>, <<"e">>}}

UnitSuggestionLists ==
    UNION {[1..n -> CandidateScripts] : n \in 0..MaxUnitSuggestions}

\* priorities of either sign, zero, and values near the ends of the i32
\* range; SimpleRuleBuilder::priority takes any i32
UnitPriorities ==
    {I32Min, -100, -1, 0, 1, 100, DefaultPriority, 1073741824, I32Max}

UnitFinds == {<<>>, <<"X">>, <<"a", "X">>, <<"X", "X">>}

UnitReplacements == {<<>>, <<"Y">>, <<"X", "X">>}

UnitCustomRules ==
    {CustomRule("test", TRUE, s, p, TRUE, TRUE) :
        s \in UnitSuggestionLists, p \in UnitPriorities}

\* SimpleRuleBuilder::replace is the only way to a SimpleRule, so the
\* replacement pair of a built rule is always set
UnitSimpleRules ==
    {SimpleRule("literal", mc, None, Some(<<f, t>>), DefaultPriority) :
        mc \in {None, Some(<<"X">>)}, f \in UnitFinds, t \in UnitReplacements}

UnitRules == UnitCustomRules \cup UnitSimpleRules

UnitExitCodes == {0, 1}

\* regex rules: script patterns a, a([a-z]+), (a)([a-z]+)$ and [a-z]+b,
\* output patterns e and ([a-z]+)e, templates with and without
\* placeholders, and a closure handed to replace_with
ScriptPatterns ==
    {<<"a">>, <<"a", "(", "[a-z]+", ")">>,
     <<"(", "a", ")", "(", "[a-z]+", ")", "$">>, <<"[a-z]+", "b">>}

OutputPatterns == {<<"e">>, <<"(", "[a-z]+", ")", "e">>}

Templates ==
    {<<"s">>, <<"s", "$", "0">>, <<"$", "1", "$", "0">>, <<"$", "2">>,
     <<"$", "0">>}

ReplacementFns == {TemplateFn(t) : t \in Templates} \cup {EchoFn}

\* RegexRuleBuilder::build lets no rule without a pattern through
UnitRegexRules ==
    {r \in {RegexRule("regex", cp, op, fn, DefaultPriority) :
                cp \in {None} \cup {Some(x) : x \in ScriptPatterns},
                op \in {None} \cup {Some(x) : x \in OutputPatterns},
                fn \in ReplacementFns} :
        r.match_cmd # None \/ r.match_out # None}

RegexCommands ==
    {Command(s, out, x) :
        s \in UNION {[1..n -> {"a", "b"}] : n \in 0..MaxScriptLen},
        out \in {<<>>, <<"e">>, <<"b", "e">>}, x \in UnitExitCodes}

\* fuzzy rules: thresholds as FuzzyRuleBuilder::threshold stores them
ThresholdArgs == {-1, 0, 20, 21, 100, 200}

StoredThresholds ==
    {FuzzyRuleBuilder_threshold(FuzzyRuleBuilder_new("fuzzy"), t).threshold :
        t \in ThresholdArgs}

\* FuzzyRuleBuilder::build lets no rule without a target through
UnitFuzzyRules ==
    {r \in {FuzzyRule("fuzzy", cp, op, <<"b">>, t, DefaultPriority) :
                cp \in {None, Some(<<"a">>)}, op \in {None, Some(<<"e">>)},
                t \in StoredThresholds} :
        r.match_cmd # None \/ r.match_out # None}

FuzzyCommands ==
    {Command(s, <<"e">>, x) : s \in {<<"a">>, <<"a", "b">>}, x \in UnitExitCodes}

\* answers of the scorer: none, or a score on either side of a threshold
Scores == {0, 20, 21, 100, 101}

Answers == {None} \cup {Some(v) : v \in Scores}

ScoreTables == [script : Answers, output : Answers]

\* the permission rule of the rule set
PermissionDenied ==
    <<"P", "e", "r", "m", "i", "s", "s", "i", "o", "n", " ",
      "d", "e", "n", "i", "e", "d">>

Sudo == <<"s", "u", "d", "o", " ">>

create_sudo_permission_denied ==
    SimpleRule("sudo_permission_denied", None, Some(PermissionDenied), Some(<< <<>>, Sudo >>), 100)

PermissionCommands ==
    {Command(s, out, x) :
        s \in {<<>>, <<"l", "s">>, <<"a", "p", "t">>},
        out \in {<<>>, PermissionDenied,
                 <<"(", "1", "3", ":", " ">> \o PermissionDenied \o <<")">>},
        x \in UnitExitCodes}

\* a rule, a command to apply it to, and the scorer's answers for them
UnitCases ==
    [rule : UnitRules, command : UnitCommands, score : {NoScore}]
    \cup [rule : UnitRegexRules, command : RegexCommands, score : {NoScore}]
    \cup [rule : UnitFuzzyRules, command : FuzzyCommands, score : ScoreTables]
    \cup [rule : {create_sudo_permission_denied}, command : PermissionCommands, score : {NoScore}]

RuleInit ==
    /\ registry = <<>>
    /\ added = <<>>
    /\ \E case \in UnitCases :
        /\ rule = case.rule
        /\ command = case.command
        /\ score = case.score
    /\ overflow_checks \in BOOLEAN
    /\ pc = "unused"
    /\ call = "none"
    /\ evaluated = {}
    /\ invoked = <<>>
    /\ produced = <<>>
    /\ order = <<>>
    /\ corrections = <<>>
    /\ best = None
    /\ previous = <<>>
    /\ previous_order = <<>>
    /\ runs = 0
    /\ upc = "ready"
    /\ new_commands = <<>>
    /\ corrected_commands = <<>>
    /\ matched = None
    /\ builder = NoBuilder
    /\ bpc = "unused"
    /\ built = None
    /\ calls = NoCalls
    /\ config = None
    /\ no_interaction = FALSE
    /\ stdin = None
    /\ stdout = <<>>
    /\ exit_status = None
    /\ mpc = "unused"

\* rule.get_new_commands(&command)
call_get_new_commands ==
    /\ upc = "ready"
    /\ new_commands' = get_new_commands(rule, command)
    /\ upc' = "new_commands_returned"
    /\ UNCHANGED <<command, overflow_checks, rule, score, corrected_commands,
                   matched>>
    /\ UNCHANGED <<pipeline_vars, builder_vars, main_vars>>

\* rule.get_corrected_commands(&command), no multiplication overflowing
\* or the build wrapping
call_get_corrected_commands ==
    /\ upc = "ready"
    /\ ~(overflow_checks /\ multiply_overflows(rule, command))
    /\ new_commands' = get_new_commands(rule, command)
    /\ corrected_commands' = get_corrected_commands(rule, command)
    /\ upc' = "corrected_commands_returned"
    /\ UNCHANGED <<command, overflow_checks, rule, score, matched>>
    /\ UNCHANGED <<pipeline_vars, builder_vars, main_vars>>

\* rule.get_corrected_commands(&command) in a build with overflow checks,
\* a multiplication overflowing: the call panics
call_get_corrected_commands_panics ==
    /\ upc = "ready"
    /\ overflow_checks /\ multiply_overflows(rule, command)
    /\ upc' = "panicked"
    /\ UNCHANGED <<command, overflow_checks, rule, score, new_commands,
                   corrected_commands, matched>>
    /\ UNCHANGED <<pipeline_vars, builder_vars, main_vars>>

\* rule.matches(&command)
call_matches ==
    /\ upc = "ready"
    /\ matched' = Some(matches(rule, command))
    /\ upc' = "matches_returned"
    /\ UNCHANGED <<command, overflow_checks, rule, score, new_commands,
                   corrected_commands>>
    /\ UNCHANGED <<pipeline_vars, builder_vars, main_vars>>

RuleNext ==
    \/ call_matches
    \/ call_get_new_commands
    \/ call_get_corrected_commands
    \/ call_get_corrected_commands_panics

RuleSpec == RuleInit /\ [][RuleNext]_vars

-----------------------------------------------------------------------------
(* The builders: any sequence of setter calls, then build.                 *)

\* a literal, a pattern with a group, and an unbalanced one
BuilderPatterns ==
    {<<"a">>, <<"a", "(", "[a-z]+", ")">>, <<"(">>, <<"a", ")">>}

BuilderTemplates == {<<"s", "$", "0">>}

BuilderPriorities == {500}

\* the argument of threshold is an i64: values on both sides of the
\* range 0..100 and far outside it
BuilderThresholdArgs == ThresholdArgs \cup {-I32Max, 101, I32Max}

BuilderInit ==
    /\ registry = <<>>
    /\ added = <<>>
    /\ command = Command(<<>>, <<>>, 0)
    /\ overflow_checks = FALSE
    /\ pc = "unused"
    /\ call = "none"
    /\ evaluated = {}
    /\ invoked = <<>>
    /\ produced = <<>>
    /\ order = <<>>
    /\ corrections = <<>>
    /\ best = None
    /\ previous = <<>>
    /\ previous_order = <<>>
    /\ runs = 0
    /\ rule = CustomRule("test", TRUE, <<>>, DefaultPriority, TRUE, TRUE)
    /\ score = NoScore
    /\ upc = "unused"
    /\ new_commands = <<>>
    /\ corrected_commands = <<>>
    /\ matched = None
    /\ builder \in {RegexRuleBuilder_new("regex"), FuzzyRuleBuilder_new("fuzzy")}
    /\ bpc = "building"
    /\ built = None
    /\ calls = NoCalls
    /\ config = None
    /\ no_interaction = FALSE
    /\ stdin = None
    /\ stdout = <<>>
    /\ exit_status = None
    /\ mpc = "unused"

\* a setter returning Result<Self, _>: the builder goes on, or the call
\* fails and the builder, moved into the call, is gone; calls.last is
\* the setter called, its argument and the builder it took
SetPattern(method, pattern, result) ==
    /\ LET LastCall == [method |-> method, pattern |-> pattern, before |-> builder]
       IN
       IF result = None
       THEN /\ bpc' = "invalid_pattern"
            /\ builder' = NoBuilder
            /\ calls' = [calls EXCEPT !.last = Some(LastCall)]
       ELSE /\ builder' = result[1]
            /\ calls' = [calls EXCEPT !.last = Some(LastCall),
                                      !.pattern = TRUE]
            /\ UNCHANGED bpc
    /\ UNCHANGED <<built, command, overflow_checks>>
    /\ UNCHANGED <<pipeline_vars, unit_vars, main_vars>>

\* build() or replace_simple(): Ok(rule) or Err
Finish(result, replacement_set) ==
    /\ bpc' = IF result = None THEN "failed" ELSE "built"
    /\ built' = result
    /\ calls' = [calls EXCEPT !.last = None, !.replacement = replacement_set]
    /\ UNCHANGED <<builder, command, overflow_checks>>
    /\ UNCHANGED <<pipeline_vars, unit_vars, main_vars>>

\* builder.match_command_regex(pattern)
call_match_command_regex(pattern) ==
    /\ bpc = "building" /\ builder.kind = "regex"
    /\ SetPattern("match_command_regex", pattern, RegexRuleBuilder_match_command_regex(builder, pattern))

\* builder.match_output_regex(pattern)
call_match_output_regex(pattern) ==
    /\ bpc = "building" /\ builder.kind = "regex"
    /\ SetPattern("match_output_regex", pattern, RegexRuleBuilder_match_output_regex(builder, pattern))

\* builder.replace_with(f)
call_replace_with(fn) ==
    /\ bpc = "building" /\ builder.kind = "regex"
    /\ builder' = RegexRuleBuilder_replace_with(builder, fn)
    /\ calls' = [calls EXCEPT !.last = None, !.replacement = TRUE]
    /\ UNCHANGED <<bpc, built, command, overflow_checks>>
    /\ UNCHANGED <<pipeline_vars, unit_vars, main_vars>>

\* builder.replace_simple(template): sets the closure and builds
call_replace_simple(template) ==
    /\ bpc = "building" /\ builder.kind = "regex"
    /\ Finish(RegexRuleBuilder_replace_simple(builder, template), TRUE)

\* builder.match_command(pattern) on a FuzzyRuleBuilder
call_match_command(pattern) ==
    /\ bpc = "building" /\ builder.kind = "fuzzy"
    /\ SetPattern("match_command", pattern, Some(FuzzyRuleBuilder_match_command(builder, pattern)))

\* builder.match_output(pattern) on a FuzzyRuleBuilder
call_match_output(pattern) ==
    /\ bpc = "building" /\ builder.kind = "fuzzy"
    /\ SetPattern("match_output", pattern, Some(FuzzyRuleBuilder_match_output(builder, pattern)))

\* builder.threshold(t)
call_threshold(t) ==
    /\ bpc = "building" /\ builder.kind = "fuzzy"
    /\ builder' = FuzzyRuleBuilder_threshold(builder, t)
    /\ calls' = [calls EXCEPT !.last = None, !.threshold = Some(t)]
    /\ UNCHANGED <<bpc, built, command, overflow_checks>>
    /\ UNCHANGED <<pipeline_vars, unit_vars, main_vars>>

\* builder.replace(replacement) on a FuzzyRuleBuilder
call_replace(replacement) ==
    /\ bpc = "building" /\ builder.kind = "fuzzy"
    /\ builder' = FuzzyRuleBuilder_replace(builder, replacement)
    /\ calls' = [calls EXCEPT !.last = None, !.replacement = TRUE]
    /\ UNCHANGED <<bpc, built, command, overflow_checks>>
    /\ UNCHANGED <<pipeline_vars, unit_vars, main_vars>>

\* builder.priority(p), either builder
call_priority(p) ==
    /\ bpc = "building"
    /\ builder' = IF builder.kind = "regex"
                  THEN RegexRuleBuilder_priority(builder, p)
                  ELSE FuzzyRuleBuilder_priority(builder, p)
    /\ calls' = [calls EXCEPT !.last = None, !.priority = Some(p)]
    /\ UNCHANGED <<bpc, built, command, overflow_checks>>
    /\ UNCHANGED <<pipeline_vars, unit_vars, main_vars>>

\* builder.build(), either builder
call_build ==
    /\ bpc = "building"
    /\ Finish(IF builder.kind = "regex" THEN RegexRuleBuilder_build(builder)
              ELSE FuzzyRuleBuilder_build(builder), calls.replacement)

BuilderNext ==
    \/ \E pattern \in BuilderPatterns : call_match_command_regex(pattern)
    \/ \E pattern \in BuilderPatterns : call_match_output_regex(pattern)
    \/ \E fn \in {EchoFn} : call_replace_with(fn)
    \/ \E template \in BuilderTemplates : call_replace_simple(template)
    \/ \E pattern \in {<<"a">>} : call_match_command(pattern)
    \/ \E pattern \in {<<"e">>} : call_match_output(pattern)
    \/ \E t \in BuilderThresholdArgs : call_threshold(t)
    \/ \E replacement \in {<<"b">>} : call_replace(replacement)
    \/ \E p \in BuilderPriorities : call_priority(p)
    \/ call_build

BuilderSpec == BuilderInit /\ [][BuilderNext]_vars

-----------------------------------------------------------------------------
(* Properties of the corrector (specification Spec).                       *)

\* a call has returned: `corrections` is the Vec it returned
Returned == pc = "idle" /\ runs > 0

\* everything the rules produced in the returned call, in slice order
Candidates == FlattenUpTo(produced, Len(produced))

\* rule i is skipped by the output gate for the command
Gated(i) == registry[i].requires_output /\ command.output = <<>>

\* C1: for a command whose output is empty, a rule with requires_output()
\* true contributes no candidate, whatever its matches() returns: its
\* flat_map result is empty, and every element of the returned sequence is
\* a candidate of a rule that does not require output.
GatedRuleContributesNothing ==
    command.output = <<>> =>
        /\ \A i \in DOMAIN produced :
               registry[i].requires_output => produced[i] = <<>>
        /\ Returned =>
               \A k \in DOMAIN corrections :
                   \E i \in DOMAIN registry :
                       /\ ~registry[i].requires_output
                       /\ \E j \in DOMAIN get_new_commands(registry[i], command) :
                              corrections[k].script =
                                  get_new_commands(registry[i], command)[j]

\* a call returned for an empty output with a rule in the registry that
\* requires output, matches and has candidates, next to one that does not
\* require output and did contribute
GatedRuleWitness ==
    /\ Returned
    /\ command.output = <<>>
    /\ corrections # <<>>
    /\ \E i \in DOMAIN registry :
           /\ registry[i].requires_output
           /\ matches(registry[i], command)
           /\ get_new_commands(registry[i], command) # <<>>

\* C2: the returned sequence is sorted ascending by priority: every
\* adjacent pair satisfies result[i].priority <= result[i+1].priority.
SortedByPriority ==
    Returned =>
        \A i \in 1..(Len(corrections) - 1) :
            corrections[i].priority <= corrections[i + 1].priority

\* a call returned at least two corrections that the rules had produced
\* in descending order of priority
SortedWitness ==
    /\ Returned
    /\ Len(corrections) >= 2
    /\ \E i \in 1..(Len(Candidates) - 1) :
           Candidates[i].priority > Candidates[i + 1].priority

\* C3: no two elements of the returned sequence share the same
\* (script, side_effect) pair.
NoDuplicateCandidates ==
    Returned =>
        \A i, j \in DOMAIN corrections :
            i < j => ~eq(corrections[i], corrections[j])

\* C4: re-running the evaluation on the same registry and command returns
\* the identical sequence, whatever the order in which the workers ran.
DeterministicResult ==
    (pc = "idle" /\ runs >= 2) => corrections = previous

\* two calls returned whose workers finished in different orders, with
\* two different candidates of equal priority in the result
DeterministicWitness ==
    /\ pc = "idle"
    /\ runs >= 2
    /\ order # previous_order
    /\ \E i, j \in DOMAIN corrections :
           /\ i < j
           /\ corrections[i].priority = corrections[j].priority
           /\ corrections[i].script # corrections[j].script

\* C7: of candidates equal under (script, side_effect) produced with
\* different priorities, the one in the returned sequence is the one with
\* the numerically smallest priority.
SmallestPrioritySurvives ==
    Returned =>
        \A k \in DOMAIN corrections :
            \A c \in DOMAIN Candidates :
                eq(Candidates[c], corrections[k]) =>
                    corrections[k].priority <= Candidates[c].priority

\* C8: every element of the returned sequence is a candidate of a
\* registered rule that is not gated and matches, with the priority
\* get_corrected_commands gave it; a rule that does not match contributes
\* nothing; an empty registry gives an empty result; one matching and one
\* non-matching rule of one candidate each give exactly one element.
OnlyMatchingRulesContribute ==
    /\ \A i \in DOMAIN produced :
           ~matches(registry[i], command) => produced[i] = <<>>
    /\ Returned =>
           /\ \A k \in DOMAIN corrections :
                  \E i \in DOMAIN registry :
                      /\ ~Gated(i)
                      /\ matches(registry[i], command)
                      /\ \E j \in DOMAIN get_new_commands(registry[i], command) :
                             /\ corrections[k].script =
                                    get_new_commands(registry[i], command)[j]
                             /\ corrections[k].priority =
                                    WrappingMul(j, registry[i].priority)
                             /\ corrections[k].side_effect = None
           /\ registry = <<>> => corrections = <<>>
           /\ \A a, b \in DOMAIN registry :
                  ( /\ Len(registry) = 2 /\ a # b
                    /\ ~Gated(a) /\ matches(registry[a], command)
                    /\ Len(get_new_commands(registry[a], command)) = 1
                    /\ ~matches(registry[b], command)
                    /\ Len(get_new_commands(registry[b], command)) = 1 )
                  => Len(corrections) = 1

\* a call returned exactly one correction from a registry of one matching
\* and one non-matching rule, each with one candidate
OnlyMatchingWitness ==
    /\ Returned
    /\ Len(corrections) = 1
    /\ \E a, b \in DOMAIN registry :
           /\ a # b
           /\ ~Gated(a) /\ matches(registry[a], command)
           /\ Len(get_new_commands(registry[a], command)) = 1
           /\ ~Gated(b) /\ ~matches(registry[b], command)
           /\ Len(get_new_commands(registry[b], command)) = 1

\* C9: get_best_correction returns None exactly when get_corrections is
\* empty, and otherwise the first element of get_corrections, whose
\* priority is minimal in that result; get_corrections is both the call
\* made inside get_best_correction and the caller's call before it.
BestIsFirstOfCorrections ==
    (Returned /\ call = "get_best_correction") =>
        \A ref \in {corrections} \cup (IF runs >= 2 THEN {previous} ELSE {}) :
            /\ best = None <=> ref = <<>>
            /\ ref # <<>> =>
                   /\ best = Some(ref[1])
                   /\ \A k \in DOMAIN ref : best[1].priority <= ref[k].priority

\* get_best_correction returned after an earlier call, the corrections
\* being at least two of different priorities
BestIsFirstWitness ==
    /\ Returned
    /\ call = "get_best_correction"
    /\ runs >= 2
    /\ Len(corrections) >= 2
    /\ corrections[1].priority < corrections[Len(corrections)].priority
    /\ best = Some(corrections[1])

-----------------------------------------------------------------------------
(* Properties of the trait methods (specification RuleSpec).               *)

\* x is the integer k * p, decided without leaving the i32 range
RECURSIVE IsProduct(_, _, _)
IsProduct(x, k, p) ==
    IF k <= 1 THEN x = p
    ELSE IF p = 0 THEN x = 0
    ELSE IF (p > 0 /\ x <= 0) \/ (p < 0 /\ x >= 0) THEN FALSE
    ELSE IsProduct(x - p, k - 1, p)

\* C5: get_corrected_commands maps the i-th (0-based) string of
\* get_new_commands to a CorrectedCommand with that script, priority
\* (i+1) * rule.priority() and no side effect, keeping the order and the
\* number of the candidates.
PriorityIsIndexTimesRulePriority ==
    upc = "corrected_commands_returned" =>
        /\ Len(corrected_commands) = Len(new_commands)
        /\ \A i \in DOMAIN corrected_commands :
               /\ corrected_commands[i].script = new_commands[i]
               /\ IsProduct(corrected_commands[i].priority, i, rule.priority)
               /\ corrected_commands[i].side_effect = None

\* C6: when a rule returns at least two candidates, the CorrectedCommand
\* of the second has a strictly greater priority than that of the first.
SecondCandidateRanksWorse ==
    (upc = "corrected_commands_returned" /\ Len(corrected_commands) >= 2) =>
        corrected_commands[2].priority > corrected_commands[1].priority

\* the positions (1-based) at which `from` occurs in s; the empty text
\* occurs at every boundary
Occurrences(s, from) ==
    {p \in 1..(Len(s) - Len(from) + 1) : SubSeq(s, p, p + Len(from) - 1) = from}

\* the occurrences a left-to-right replacement takes: those not overlapped
\* by a taken occurrence further left
Taken(s, from) ==
    CHOOSE T \in SUBSET Occurrences(s, from) :
        \A p \in Occurrences(s, from) :
            p \in T <=> ~\E q \in T : q < p /\ p < q + Len(from)

RECURSIVE ReplacedUpTo(_, _, _, _)
ReplacedUpTo(s, from, to, n) ==
    IF n = 0 THEN <<>>
    ELSE ReplacedUpTo(s, from, to, n - 1)
         \o (IF n \in Taken(s, from) THEN to ELSE <<>>)
         \o (IF n <= Len(s) /\ ~\E q \in Taken(s, from) : q <= n /\ n < q + Len(from)
             THEN <<s[n]>> ELSE <<>>)

\* s with every taken occurrence of `from` replaced by `to`
AllReplaced(s, from, to) == ReplacedUpTo(s, from, to, Len(s) + 1)

\* C10: for a literal rule built with replace(find, repl), get_new_commands
\* returns exactly one candidate: the script with all occurrences of find
\* replaced by repl; a script that does not contain find is returned
\* unchanged, and find X, repl Y on the script aXb gives aYb.
LiteralRuleReplacesAllOccurrences ==
    (upc = "new_commands_returned" /\ rule.kind = "simple"
        /\ rule.replacement # None) =>
        LET find == rule.replacement[1][1]
            repl == rule.replacement[1][2]
        IN  /\ Len(new_commands) = 1
            /\ new_commands[1] = AllReplaced(command.script, find, repl)
            /\ Occurrences(command.script, find) = {} =>
                   new_commands[1] = command.script
            /\ ( /\ command.script = <<"a", "X", "b">>
                 /\ find = <<"X">> /\ repl = <<"Y">> )
               => new_commands = << <<"a", "Y", "b">> >>

\* a literal rule has returned the candidate for a script in which the
\* find text occurs twice and is not the replacement
LiteralRuleWitness ==
    /\ upc = "new_commands_returned"
    /\ rule.kind = "simple"
    /\ rule.replacement # None
    /\ rule.replacement[1][1] # <<>>
    /\ rule.replacement[1][1] # rule.replacement[1][2]
    /\ Cardinality(Taken(command.script, rule.replacement[1][1])) = 2
    /\ Len(new_commands) = 1

\* the test a rule of a builder applies to one field of the command: no
\* test when the pattern is unset
FieldTest(r, pattern, text, answer) ==
    \/ pattern = None
    \/ /\ pattern # None
       /\ \/ /\ r.kind = "simple"
             /\ \E i \in 0..(Len(text) - Len(pattern[1])) :
                    \A k \in 1..Len(pattern[1]) : text[i + k] = pattern[1][k]
          \/ /\ r.kind = "regex"
             /\ is_match(pattern[1], text)
          \/ /\ r.kind = "fuzzy"
             /\ answer # None
             /\ answer[1] > r.threshold

OtherExitCodes == {-1, 0, 1, 2, 127}

\* C11: for a rule of any of the three builders, matches(command) is the
\* conjunction of a script test and an output test; an unset test counts
\* as true, a set test is substring containment (literal), a pattern
\* match (regex) or a score strictly above the threshold (fuzzy); the
\* exit code of the command never influences the result.
MatchesIsConjunctionOfFieldTests ==
    (upc = "matches_returned" /\ rule.kind \in {"simple", "regex", "fuzzy"}) =>
        /\ matched = Some(FieldTest(rule, rule.match_cmd, command.script, score.script)
                          /\ FieldTest(rule, rule.match_out, command.output, score.output))
        /\ \A x \in OtherExitCodes :
               matches(rule, [command EXCEPT !.exit_code = x]) = matched[1]

\* a fuzzy rule with both targets set has answered: the script scores
\* just above the threshold, the output exactly the threshold, no match
MatchesWitness ==
    /\ upc = "matches_returned"
    /\ rule.kind = "fuzzy"
    /\ rule.match_cmd # None /\ rule.match_out # None
    /\ score.script = Some(rule.threshold + 1)
    /\ score.output = Some(rule.threshold)
    /\ matched = Some(FALSE)

\* the groups of the script pattern for the script, if there are any
ScriptGroups ==
    IF rule.match_cmd = None THEN None
    ELSE captures(rule.match_cmd[1], command.script)

\* the groups of the output pattern for the output, if there are any
OutputGroups ==
    IF rule.match_out = None THEN None
    ELSE captures(rule.match_out[1], command.output)

TemplateRule == rule.kind = "regex" /\ rule.replacement[1][1] = <<"template">>

Template == rule.replacement[1][2]

\* C13: for a regex rule built through replace_simple, the placeholders
\* $0, $1, ... of the template are substituted only with capture groups
\* of the script pattern, never with those of the output pattern: where
\* the script pattern gives no groups (a rule with only an output pattern
\* included), a candidate is the template as it stands or the script.
PlaceholdersTakeScriptGroupsOnly ==
    (upc = "new_commands_returned" /\ TemplateRule) =>
        IF ScriptGroups # None
        THEN new_commands = simple_replacement(Template, command.script, ScriptGroups[1])
        ELSE \A i \in 1..Len(new_commands) :
                 new_commands[i] \in {Template, command.script}

\* C14: for a regex rule built with replace_simple(template) and any
\* matching command, the rule returns exactly one candidate: the original
\* script when placeholder substitution leaves the template unchanged (in
\* particular for a template without placeholders), the substituted
\* template otherwise.
TemplateRuleReturnsOneCandidate ==
    (upc = "new_commands_returned" /\ TemplateRule /\ matches(rule, command)) =>
        LET groups == IF rule.match_cmd # None THEN ScriptGroups[1]
                      ELSE OutputGroups[1]
            substituted == SubstituteFrom(Template, groups, 0)
        IN  /\ Len(new_commands) = 1
            /\ new_commands[1] = IF substituted = Template
                                 THEN command.script ELSE substituted
            /\ (\A k \in 1..Len(Template) : Template[k] # "$") =>
                   new_commands[1] = command.script

\* a template without placeholders: the rule matched and returned the
\* script, which is not the template
TemplateFallbackWitness ==
    /\ upc = "new_commands_returned"
    /\ TemplateRule
    /\ matches(rule, command)
    /\ Template = <<"s">>
    /\ command.script = <<"a", "b">>
    /\ new_commands = << <<"a", "b">> >>

\* the rule as FuzzyRuleBuilder::threshold(t) would have built it
WithThreshold(t) ==
    [rule EXCEPT !.threshold = FuzzyRuleBuilder_threshold(FuzzyRuleBuilder_new(rule.name), t).threshold]

\* C16: for a fixed fuzzy target and a fixed command, if the rule built
\* with threshold t2 matches then the rule built with any t1 <= t2 (same
\* targets) matches as well; a field for which the scorer yields no score
\* matches at no threshold.
ThresholdMonotone ==
    (upc = "matches_returned" /\ rule.kind = "fuzzy") =>
        /\ \A t1, t2 \in ThresholdArgs :
               ( /\ t1 <= t2
                 /\ WithThreshold(t2) = rule
                 /\ matched = Some(TRUE) )
               => matches(WithThreshold(t1), command)
        /\ ( \/ rule.match_cmd # None /\ score.script = None
             \/ rule.match_out # None /\ score.output = None )
           => /\ matched = Some(FALSE)
              /\ \A t \in ThresholdArgs : ~matches(WithThreshold(t), command)

\* a fuzzy rule with the largest threshold has matched (so every smaller
\* threshold is put to the test)
ThresholdMonotoneWitness ==
    /\ upc = "matches_returned"
    /\ rule.kind = "fuzzy"
    /\ rule.threshold = MaxThreshold
    /\ rule.match_cmd # None
    /\ matched = Some(TRUE)

\* C18: for every command whose output contains 'Permission denied', the
\* sudo_permission_denied rule proposes exactly one candidate, the
\* original script with 'sudo ' added once at the front.
SudoAddedOnceAtFront ==
    ( /\ upc = "new_commands_returned"
      /\ rule = create_sudo_permission_denied
      /\ contains(command.output, PermissionDenied) )
    => new_commands = <<Sudo \o command.script>>

-----------------------------------------------------------------------------
(* Properties of the builders (specification BuilderSpec).                 *)

\* C12: build() on the regex or the fuzzy builder fails and produces no
\* rule whenever neither a script nor an output pattern/target was set,
\* or no replacement was set; it produces a rule exactly when at least
\* one pattern/target and a replacement were set, in whatever order the
\* builder calls were made.
BuildSucceedsExactlyWhenComplete ==
    bpc \in {"built", "failed"} =>
        /\ (bpc = "built") = (calls.pattern /\ calls.replacement)
        /\ (bpc = "failed") = (~calls.pattern \/ ~calls.replacement)
        /\ bpc = "failed" => built = None
        /\ bpc = "built" =>
               /\ built # None
               /\ built[1].kind = builder.kind
               /\ built[1].match_cmd # None \/ built[1].match_out # None
               /\ built[1].replacement # None

\* build() has failed on a fuzzy builder that was given a replacement and
\* a threshold but no target
BuildFailedWitness ==
    /\ bpc = "failed"
    /\ builder.kind = "fuzzy"
    /\ calls.replacement
    /\ calls.threshold # None
    /\ ~calls.pattern

-----------------------------------------------------------------------------
(* Further properties of the registry and the corrector (specification     *)
(* Spec).                                                                  *)

\* C17: after any sequence of add_rule and add_rules calls on an initially
\* empty registry, rules() is the concatenation of the added rules in call
\* order (add_rules keeps the order of its argument), len() is the number
\* of rules added, is_empty() holds exactly when len() is 0, and no
\* operation removes a rule or decreases len().
RegistryIsConcatenationOfAdded ==
    /\ rules(registry) = added
    /\ len(registry) = Len(added)
    /\ is_empty(registry) = (len(registry) = 0)
    /\ is_empty(registry) = (added = <<>>)

\* two different rules have been added and the registry is still open
RegistryWitness ==
    /\ pc = "registry"
    /\ len(registry) = 2
    /\ registry[1] # registry[2]
    /\ ~is_empty(registry)

\* C19: the registry accepts several rules with the same name and keeps
\* all of them, and get_corrections evaluates each: when two same-named
\* rules are both not gated and match, the candidates of each appear in
\* the result (up to the deduplication by script and side effect).
SameNamedRulesAllFire ==
    /\ Len(registry) = Len(added)
    /\ \A i \in DOMAIN registry : registry[i].name = added[i].name
    /\ Returned =>
           \A i, j \in DOMAIN registry :
               ( /\ i # j
                 /\ registry[i].name = registry[j].name
                 /\ ~Gated(i) /\ matches(registry[i], command)
                 /\ ~Gated(j) /\ matches(registry[j], command) )
               => \A k \in DOMAIN get_new_commands(registry[i], command) :
                      \E n \in DOMAIN corrections :
                          /\ corrections[n].script = get_new_commands(registry[i], command)[k]
                          /\ corrections[n].side_effect = None

\* two rules of one name, neither gated, both matching, with different
\* candidates: the result holds the candidates of both
SameNamedRulesWitness ==
    /\ Returned
    /\ Len(registry) = 2
    /\ registry[1].name = registry[2].name
    /\ ~Gated(1) /\ matches(registry[1], command)
    /\ ~Gated(2) /\ matches(registry[2], command)
    /\ get_new_commands(registry[1], command) = << <<"a">> >>
    /\ get_new_commands(registry[2], command) = << <<"b">> >>
    /\ {corrections[n].script : n \in DOMAIN corrections} = {<<"a">>, <<"b">>}

\* the candidates in ascending priority, those of equal priority in the
\* order of their production (rule by rule in registry order, within a
\* rule by candidate index)
TiesInProductionOrder ==
    LET c == Candidates
        rank(a) == 1 + Cardinality({b \in DOMAIN c :
                           \/ c[b].priority < c[a].priority
                           \/ c[b].priority = c[a].priority /\ b < a})
    IN  [p \in DOMAIN c |-> c[CHOOSE a \in DOMAIN c : rank(a) = p]]

\* the k-th smallest element of a set of indices
Nth(S, k) == CHOOSE a \in S : Cardinality({b \in S : b <= a}) = k

\* C20: elements of the result of get_corrections that have equal
\* priority appear in the order in which they were produced, by registry
\* insertion order of their rules and, within one rule, by candidate
\* index: the result is the candidates in that order with some left out.
EqualPrioritiesKeepProductionOrder ==
    Returned =>
        \E S \in SUBSET DOMAIN TiesInProductionOrder :
            /\ Cardinality(S) = Len(corrections)
            /\ \A k \in DOMAIN corrections :
                   corrections[k] = TiesInProductionOrder[Nth(S, k)]

\* two rules of equal priority produced different scripts; both are in
\* the result, the one of the first rule first
EqualPrioritiesWitness ==
    /\ Returned
    /\ Len(registry) = 2
    /\ registry[1].priority = registry[2].priority
    /\ produced[1] # <<>> /\ produced[2] # <<>>
    /\ order = <<2, 1>>
    /\ Len(corrections) >= 2
    /\ corrections[1] = produced[1][1]
    /\ corrections[2] = produced[2][1]
    /\ corrections[1].priority = corrections[2].priority
    /\ corrections[1].script # corrections[2].script


\* the methods called on rule i, as a set
Invoked(i) == {invoked[i][k] : k \in DOMAIN invoked[i]}

\* method a was called on rule i before method b was
CalledBefore(i, a, b) ==
    \E k, l \in DOMAIN invoked[i] :
        k < l /\ invoked[i][k] = a /\ invoked[i][l] = b

\* C21: in get_corrections the output gate is checked before matching for
\* each rule: matches is never invoked on a gated rule (requires_output
\* true and command output empty), and get_corrected_commands /
\* get_new_commands is invoked only on rules whose matches returned true.
GateCheckedBeforeMatches ==
    pc \in {"running", "idle", "panicked"} =>
        \A i \in DOMAIN invoked :
            /\ Gated(i) => "matches" \notin Invoked(i)
            /\ "matches" \in Invoked(i) =>
                   CalledBefore(i, "requires_output", "matches")
            /\ \A m \in {"get_corrected_commands", "get_new_commands"} :
                   m \in Invoked(i) =>
                       /\ CalledBefore(i, "matches", m)
                       /\ matches(registry[i], command)
            /\ produced[i] # <<>> => "get_corrected_commands" \in Invoked(i)

\* the workers have run on a gated rule whose matches would be true and
\* on a rule that is not gated and matches
GateCheckedWitness ==
    /\ pc = "running"
    /\ evaluated = {1, 2}
    /\ Gated(1) /\ matches(registry[1], command)
    /\ invoked[1] = <<"requires_output">>
    /\ ~Gated(2) /\ matches(registry[2], command)
    /\ "get_new_commands" \in Invoked(2)


\* the calls of the replacement function for the rule and command at hand
ReplacementCalls == regex_rule_replacement_calls(rule, command)

\* C22: for a regex rule and any command on which matches is true,
\* get_new_commands calls the replacement function exactly once with the
\* original script text, passing the capture groups of the script pattern
\* whenever a script pattern is set and those of the output pattern only
\* when no script pattern is set, and returns the function's result
\* unchanged, never the empty fallback.
ReplacementCalledOnceWithPatternGroups ==
    (upc = "new_commands_returned" /\ rule.kind = "regex" /\ matches(rule, command)) =>
        LET groups == IF rule.match_cmd # None THEN ScriptGroups
                      ELSE OutputGroups
        IN  /\ groups # None
            /\ Len(ReplacementCalls) = 1
            /\ ReplacementCalls[1].original = command.script
            /\ ReplacementCalls[1].caps = groups[1]
            /\ new_commands = replacement_fn(rule.replacement[1], command.script, groups[1])
            /\ new_commands # <<>>
            /\ rule.replacement[1] = EchoFn =>
                   new_commands = <<command.script>> \o groups[1]

\* both patterns are set and give different groups: the function that
\* returns its arguments was handed those of the script pattern
ReplacementCalledWitness ==
    /\ upc = "new_commands_returned"
    /\ rule.kind = "regex" /\ matches(rule, command)
    /\ rule.replacement[1] = EchoFn
    /\ rule.match_cmd # None /\ rule.match_out # None
    /\ ScriptGroups # OutputGroups
    /\ Len(ScriptGroups[1]) > 1
    /\ new_commands = <<command.script>> \o ScriptGroups[1]

\* only an output pattern is set: the function was handed its groups
OutputGroupsWitness ==
    /\ upc = "new_commands_returned"
    /\ rule.kind = "regex" /\ matches(rule, command)
    /\ rule.replacement[1] = EchoFn
    /\ rule.match_cmd = None
    /\ Len(OutputGroups[1]) > 1
    /\ new_commands = <<command.script>> \o OutputGroups[1]


\* the last call on the builder was one of the two regex pattern setters
RegexPatternCall ==
    /\ calls.last # None
    /\ calls.last[1].method \in {"match_command_regex", "match_output_regex"}

\* C23: a syntactically invalid pattern given to match_command_regex or
\* match_output_regex is an error of that call and yields no builder, so
\* no rule can be produced from it; a valid pattern returns the builder
\* with that pattern set and its name, other pattern, replacement and
\* priority unchanged.
InvalidPatternYieldsNoBuilder ==
    /\ RegexPatternCall =>
        LET last == calls.last[1]
        IN  IF regex_valid(last.pattern)
            THEN /\ bpc = "building"
                 /\ IF last.method = "match_command_regex"
                    THEN /\ builder.command_pattern = Some(last.pattern)
                         /\ builder.output_pattern = last.before.output_pattern
                    ELSE /\ builder.output_pattern = Some(last.pattern)
                         /\ builder.command_pattern = last.before.command_pattern
                 /\ builder.name = last.before.name
                 /\ builder.replacement = last.before.replacement
                 /\ builder.priority = last.before.priority
                 /\ builder.kind = last.before.kind
            ELSE /\ bpc = "invalid_pattern"
                 /\ builder = NoBuilder
                 /\ built = None
    /\ bpc = "invalid_pattern" =>
        /\ RegexPatternCall /\ ~regex_valid(calls.last[1].pattern)
        /\ built = None
        /\ ~ENABLED BuilderNext

\* match_command_regex was given an invalid pattern by a builder that
\* already had an output pattern, a replacement and a priority
InvalidPatternWitness ==
    /\ RegexPatternCall
    /\ calls.last[1].method = "match_command_regex"
    /\ ~regex_valid(calls.last[1].pattern)
    /\ calls.last[1].before.output_pattern # None
    /\ calls.last[1].before.replacement # None
    /\ calls.last[1].before.priority # DefaultPriority
    /\ bpc = "invalid_pattern"

\* match_output_regex was given a valid pattern by a builder that had a
\* script pattern, a replacement and a priority, and kept them
ValidPatternWitness ==
    /\ RegexPatternCall
    /\ calls.last[1].method = "match_output_regex"
    /\ regex_valid(calls.last[1].pattern)
    /\ builder.command_pattern # None
    /\ builder.replacement # None
    /\ builder.priority # DefaultPriority
    /\ builder.output_pattern = Some(calls.last[1].pattern)


-----------------------------------------------------------------------------
(* The rules of the library, as main registers them.                       *)

create_git_branch_delete ==
    SimpleRule("git_branch_delete",
        Some(<<"g", "i", "t", " ", "b", "r", "a", "n", "c", "h", " ", "-",
             "d">>),
        Some(<<"e", "r", "r", "o", "r", ":", " ", "T", "h", "e", " ", "b",
             "r", "a", "n", "c", "h">>),
        Some(<< <<"g", "i", "t", " ", "b", "r", "a", "n", "c", "h", " ", "-",
                 "d">>,
                <<"g", "i", "t", " ", "b", "r", "a", "n", "c", "h", " ", "-",
                  "D">> >>),
        500)

create_git_branch_0flag ==
    SimpleRule("git_branch_0flag",
        Some(<<"g", "i", "t", " ", "b", "r", "a", "n", "c", "h">>),
        Some(<<"f", "a", "t", "a", "l", ":", " ", "b", "a", "d", " ", "r",
             "e", "v", "i", "s", "i", "o", "n">>),
        Some(<< <<"g", "i", "t", " ", "b", "r", "a", "n", "c", "h">>,
                <<"g", "i", "t", " ", "b", "r", "a", "n", "c", "h", " ", "-",
                  "a">> >>),
        400)

create_git_push_set_upstream ==
    SimpleRule("git_push_set_upstream",
        Some(<<"g", "i", "t", " ", "p", "u", "s", "h">>),
        Some(<<"f", "a", "t", "a", "l", ":", " ", "T", "h", "e", " ", "c",
             "u", "r", "r", "e", "n", "t", " ", "b", "r", "a", "n", "c",
             "h">>),
        Some(<< <<"g", "i", "t", " ", "p", "u", "s", "h">>,
                <<"g", "i", "t", " ", "p", "u", "s", "h", " ", "-", "u", " ",
                  "o", "r", "i", "g", "i", "n">> >>),
        600)

create_git_pull_rebase ==
    SimpleRule("git_pull_rebase",
        Some(<<"g", "i", "t", " ", "p", "u", "l", "l">>),
        Some(<<"P", "l", "e", "a", "s", "e", " ", "s", "p", "e", "c", "i",
             "f", "y", " ", "w", "h", "i", "c", "h", " ", "b", "r", "a", "n",
             "c", "h", " ", "y", "o", "u", " ", "w", "a", "n", "t", " ", "t",
             "o", " ", "m", "e", "r", "g", "e", " ", "w", "i", "t", "h">>),
        Some(<< <<"g", "i", "t", " ", "p", "u", "l", "l">>,
                <<"g", "i", "t", " ", "p", "u", "l", "l", " ", "-", "-", "r",
                  "e", "b", "a", "s", "e", " ", "o", "r", "i", "g", "i",
                  "n">> >>),
        500)

create_git_push_force ==
    SimpleRule("git_push_force",
        Some(<<"g", "i", "t", " ", "p", "u", "s", "h">>),
        Some(<<"r", "e", "j", "e", "c", "t", "e", "d">>),
        Some(<< <<"g", "i", "t", " ", "p", "u", "s", "h">>,
                <<"g", "i", "t", " ", "p", "u", "s", "h", " ", "-", "-", "f",
                  "o", "r", "c", "e", "-", "w", "i", "t", "h", "-", "l", "e",
                  "a", "s", "e">> >>),
        700)

create_git_add_all ==
    SimpleRule("git_add_all",
        Some(<<"g", "i", "t", " ", "c", "o", "m", "m", "i", "t">>),
        Some(<<"f", "a", "t", "a", "l", ":", " ", "y", "o", "u", "r", " ",
             "c", "u", "r", "r", "e", "n", "t", " ", "b", "r", "a", "n", "c",
             "h", " ", "i", "s", " ", "b", "e", "h", "i", "n", "d">>),
        Some(<< <<"g", "i", "t", " ", "c", "o", "m", "m", "i", "t">>,
                <<"g", "i", "t", " ", "a", "d", "d", " ", "-", "A", " ", "&",
                  "&", " ", "g", "i", "t", " ", "c", "o", "m", "m", "i",
                  "t">> >>),
        800)

create_git_commit_amend ==
    SimpleRule("git_commit_amend",
        Some(<<"g", "i", "t", " ", "c", "o", "m", "m", "i", "t">>),
        Some(<<"n", "o", "t", "h", "i", "n", "g", " ", "t", "o", " ", "c",
             "o", "m", "m", "i", "t">>),
        Some(<< <<"g", "i", "t", " ", "c", "o", "m", "m", "i", "t">>,
                <<"g", "i", "t", " ", "c", "o", "m", "m", "i", "t", " ", "-",
                  "-", "a", "m", "e", "n", "d", " ", "-", "-", "n", "o", "-",
                  "e", "d", "i", "t">> >>),
        550)

create_mkdir_p ==
    SimpleRule("mkdir_p",
        Some(<<"m", "k", "d", "i", "r", " ">>),
        Some(<<"N", "o", " ", "s", "u", "c", "h", " ", "f", "i", "l", "e",
             " ", "o", "r", " ", "d", "i", "r", "e", "c", "t", "o", "r",
             "y">>),
        Some(<< <<"m", "k", "d", "i", "r", " ">>,
                <<"m", "k", "d", "i", "r", " ", "-", "p", " ">> >>),
        100)

create_rm_recursive ==
    SimpleRule("rm_recursive",
        Some(<<"r", "m", " ">>),
        Some(<<"I", "s", " ", "a", " ", "d", "i", "r", "e", "c", "t", "o",
             "r", "y">>),
        Some(<< <<"r", "m", " ">>,
                <<"r", "m", " ", "-", "r", " ">> >>),
        200)

create_cp_recursive ==
    SimpleRule("cp_recursive",
        Some(<<"c", "p", " ">>),
        Some(<<"I", "s", " ", "a", " ", "d", "i", "r", "e", "c", "t", "o",
             "r", "y">>),
        Some(<< <<"c", "p", " ">>,
                <<"c", "p", " ", "-", "r", " ">> >>),
        300)

create_mv_to_directory ==
    SimpleRule("mv_to_directory",
        Some(<<"m", "v", " ">>),
        Some(<<"N", "o", " ", "s", "u", "c", "h", " ", "f", "i", "l", "e",
             " ", "o", "r", " ", "d", "i", "r", "e", "c", "t", "o", "r",
             "y">>),
        Some(<< <<"m", "v", " ">>,
                <<"m", "k", "d", "i", "r", " ", "-", "p", " ", "/", "p", "a",
                  "t", "h", " ", "&", "&", " ", "m", "v", " ">> >>),
        400)

create_sudo_apt ==
    SimpleRule("sudo_apt",
        Some(<<"a", "p", "t", " ">>),
        Some(<<"E", ":", " ", "C", "o", "u", "l", "d", " ", "n", "o", "t",
             " ", "o", "p", "e", "n", " ", "l", "o", "c", "k", " ", "f", "i",
             "l", "e">>),
        Some(<< <<"a", "p", "t", " ">>,
                <<"s", "u", "d", "o", " ", "a", "p", "t", " ">> >>),
        200)

create_chmod_execute ==
    SimpleRule("chmod_execute",
        Some(<<".">>),
        Some(<<"P", "e", "r", "m", "i", "s", "s", "i", "o", "n", " ", "d",
             "e", "n", "i", "e", "d">>),
        Some(<< <<".">>,
                <<"c", "h", "m", "o", "d", " ", "+", "x", " ">> >>),
        300)

create_chmod_recursive ==
    SimpleRule("chmod_recursive",
        Some(<<"c", "h", "m", "o", "d", " ">>),
        Some(<<"N", "o", " ", "s", "u", "c", "h", " ", "f", "i", "l", "e",
             " ", "o", "r", " ", "d", "i", "r", "e", "c", "t", "o", "r",
             "y">>),
        Some(<< <<"c", "h", "m", "o", "d", " ">>,
                <<"c", "h", "m", "o", "d", " ", "-", "R", " ">> >>),
        400)

create_apt_autoremove ==
    SimpleRule("apt_autoremove",
        Some(<<"a", "p", "t", " ", "r", "e", "m", "o", "v", "e">>),
        Some(<<"W", "A", "R", "N", "I", "N", "G", ":", " ", "T", "h", "e",
             " ", "f", "o", "l", "l", "o", "w", "i", "n", "g">>),
        Some(<< <<"a", "p", "t", " ", "r", "e", "m", "o", "v", "e">>,
                <<"a", "p", "t", " ", "a", "u", "t", "o", "r", "e", "m", "o",
                  "v", "e">> >>),
        600)

create_apt_get_search ==
    SimpleRule("apt_get_search",
        Some(<<"a", "p", "t", " ", "s", "e", "a", "r", "c", "h">>),
        Some(<<"E", ":", " ", "I", "n", "v", "a", "l", "i", "d", " ", "o",
             "p", "e", "r", "a", "t", "i", "o", "n">>),
        Some(<< <<"a", "p", "t", " ", "s", "e", "a", "r", "c", "h">>,
                <<"a", "p", "t", "-", "c", "a", "c", "h", "e", " ", "s", "e",
                  "a", "r", "c", "h">> >>),
        500)

create_apt_install_builddeps ==
    SimpleRule("apt_install_builddeps",
        Some(<<"a", "p", "t", " ", "i", "n", "s", "t", "a", "l", "l">>),
        Some(<<"e", "r", "r", "o", "r", ":", " ", "y", "o", "u", " ", "n",
             "e", "e", "d", " ", "t", "o", " ", "b", "e", " ", "r", "o", "o",
             "t">>),
        Some(<< <<"a", "p", "t", " ", "i", "n", "s", "t", "a", "l", "l">>,
                <<"a", "p", "t", " ", "i", "n", "s", "t", "a", "l", "l", " ",
                  "b", "u", "i", "l", "d", "-", "e", "s", "s", "e", "n", "t",
                  "i", "a", "l">> >>),
        700)

\* the patterns are valid, the unwraps do not panic; the priority is the
\* builder's default
create_git_branch_exists ==
    RegexRule("git_branch_exists",
        Some(<<"g", "i", "t", " ", "c", "h", "e", "c", "k", "o", "u", "t",
               " ", "(", "[a-z_-]+", ")">>),
        Some(<<"e", "r", "r", "o", "r", ":", " ", "p", "a", "t", "h", "s",
               "p", "e", "c", " ", "'", "(", "[a-z_-]+", ")", "'", " ", "d",
               "i", "d", " ", "n", "o", "t", " ", "m", "a", "t", "c", "h">>),
        CheckoutFn, DefaultPriority)

git_branch_rules ==
    <<create_git_branch_delete, create_git_branch_exists,
      create_git_branch_0flag>>

git_push_pull_rules ==
    <<create_git_push_set_upstream, create_git_pull_rebase,
      create_git_push_force>>

git_staging_rules == <<create_git_add_all, create_git_commit_amend>>

filesystem_rules ==
    <<create_mkdir_p, create_rm_recursive, create_cp_recursive,
      create_mv_to_directory>>

permission_rules ==
    <<create_sudo_permission_denied, create_sudo_apt, create_chmod_execute,
      create_chmod_recursive>>

package_manager_rules ==
    <<create_apt_autoremove, create_apt_get_search,
      create_apt_install_builddeps>>

-----------------------------------------------------------------------------
(* Config and the command-line program (main.rs).                          *)

\* struct RuleConfig
RuleConfig(enabled, priority) == [enabled |-> enabled, priority |-> priority]

\* struct Config: rules, the HashMap, is a function on the names that
\* have an entry; main reads no field of global
Config(rule_configs) == [rules |-> rule_configs]

\* Config::default: no entries
DefaultConfig == Config(<<>>)

\* is_rule_enabled with a rule without an entry counted as disabled
is_rule_enabled_listed_only(cfg, rule_name) ==
    IF rule_name \in DOMAIN cfg.rules THEN cfg.rules[rule_name].enabled
    ELSE FALSE

\* Config::is_rule_enabled: the entry's enabled, true without an entry
is_rule_enabled(cfg, rule_name) ==
    IF rule_name \in DOMAIN cfg.rules THEN cfg.rules[rule_name].enabled
    ELSE TRUE

\* Config::get_rule_priority: the entry's priority, None without an entry
get_rule_priority(cfg, rule_name) ==
    IF rule_name \in DOMAIN cfg.rules THEN cfg.rules[rule_name].priority
    ELSE None

\* filter_rules_by_config: into_iter().filter(..).collect()
filter_rules_by_config(rs, cfg) ==
    SelectSeq(rs, LAMBDA r : is_rule_enabled(cfg, r.name))

\* Corrector::get_corrections as one step: the closures on every rule,
\* collect, sort, dedup
get_corrections(v, c) ==
    LET prod == [i \in 1..Len(v) |-> contribution(v[i], c)]
    IN  dedup(sort(collect(prod, [i \in 1..Len(v) |-> i])))

\* char::is_whitespace, for the characters of the model
Whitespace == {" ", "\n", "\t", "\r"}

RECURSIVE trim_start(_)
trim_start(s) ==
    IF s # <<>> /\ Head(s) \in Whitespace THEN trim_start(Tail(s)) ELSE s

RECURSIVE trim_end(_)
trim_end(s) ==
    IF s # <<>> /\ s[Len(s)] \in Whitespace
    THEN trim_end(SubSeq(s, 1, Len(s) - 1))
    ELSE s

\* str::trim
trim(s) == trim_end(trim_start(s))

\* the value of a decimal digit, None for any other character
to_digit(ch) ==
    IF \E d \in 1..10 : Digits[d] = ch
    THEN Some(CHOOSE d \in 0..9 : Digits[d + 1] = ch)
    ELSE None

RECURSIVE Accumulate(_, _)
\* the loop of from_str_radix: result * 10 + digit, Err at the first
\* character that is no digit
Accumulate(s, result) ==
    IF s = <<>> THEN Some(result)
    ELSE IF to_digit(Head(s)) = None THEN None
    ELSE Accumulate(Tail(s), result * 10 + to_digit(Head(s))[1])

\* str::parse::<usize>: Err for the empty text and for a sign alone; one
\* leading "+" is skipped, a "-" is no digit of an unsigned type; the
\* texts of the model are too short to overflow a usize
parse_usize(s) ==
    IF s = <<>> THEN None
    ELSE IF s \in {<<"+">>, <<"-">>} THEN None
    ELSE IF Head(s) = "+" THEN Accumulate(Tail(s), 0)
    ELSE Accumulate(s, 0)

\* what read_line did: Ok with the line read, or Err
ReadOk(line) == [ok |-> TRUE, line |-> line]

ReadErr == [ok |-> FALSE, line |-> <<>>]

\* select_correction_interactive with the index taken without the range
\* test where it is positive
select_correction_unchecked(cs, read) ==
    IF ~read.ok THEN None
    ELSE LET idx == parse_usize(trim(read.line))
         IN  IF idx # None /\ idx[1] > 0
             THEN Some(cs[IF idx[1] <= Len(cs) THEN idx[1] ELSE Len(cs)].script)
             ELSE None

\* select_correction_interactive, given what read_line did: the script of
\* corrections[idx - 1] if the trimmed line parses to an idx in range
select_correction_interactive(cs, read) ==
    IF ~read.ok THEN None
    ELSE LET idx == parse_usize(trim(read.line))
         IN  IF idx # None /\ idx[1] > 0 /\ idx[1] <= Len(cs)
             THEN Some(cs[idx[1]].script)
             ELSE None

-----------------------------------------------------------------------------
(* MainSpec: one run of the program.  The arguments are fixed at the       *)
(* start; the configuration found and the line typed are inputs of the     *)
(* steps that read them.                                                   *)

\* args.command, args.output, args.exit_code
MainCommands ==
    {Command(
         <<"l", "s">>,
         <<>>,
         0),
     Command(
         <<"m", "k", "d", "i", "r", " ", "a", "/", "b">>,
         <<"N", "o", " ", "s", "u", "c", "h", " ", "f", "i", "l", "e", " ",
           "o", "r", " ", "d", "i", "r", "e", "c", "t", "o", "r", "y">>,
         1),
     Command(
         <<".", "/", "a">>,
         <<"P", "e", "r", "m", "i", "s", "s", "i", "o", "n", " ", "d", "e",
           "n", "i", "e", "d">>,
         126),
     Command(
         <<"g", "i", "t", " ", "p", "u", "s", "h">>,
         <<"r", "e", "j", "e", "c", "t", "e", "d", ";", " ", "f", "a", "t",
           "a", "l", ":", " ", "T", "h", "e", " ", "c", "u", "r", "r", "e",
           "n", "t", " ", "b", "r", "a", "n", "c", "h">>,
         1),
     Command(
         <<"c", "h", "m", "o", "d", " ", ".", "/", "a">>,
         <<"P", "e", "r", "m", "i", "s", "s", "i", "o", "n", " ", "d", "e",
           "n", "i", "e", "d", ";", " ", "N", "o", " ", "s", "u", "c", "h",
           " ", "f", "i", "l", "e", " ", "o", "r", " ", "d", "i", "r", "e",
           "c", "t", "o", "r", "y">>,
         1),
     Command(
         <<"g", "i", "t", " ", "c", "h", "e", "c", "k", "o", "u", "t", " ",
           "d", "e", "v">>,
         <<"e", "r", "r", "o", "r", ":", " ", "p", "a", "t", "h", "s", "p",
           "e", "c", " ", "'", "d", "e", "v", "'", " ", "d", "i", "d", " ",
           "n", "o", "t", " ", "m", "a", "t", "c", "h">>,
         1),
     Command(
         <<"g", "i", "t", " ", "c", "h", "e", "c", "k", "o", "u", "t", " ",
           "d", "e", "v">>,
         <<>>,
         1)}

\* the names a configuration file has entries for
ConfigNames == {"sudo_permission_denied", "chmod_execute", "no_such_rule"}

PriorityOverride == 1

RuleConfigs ==
    {RuleConfig(e, p) : e \in BOOLEAN, p \in {None, Some(PriorityOverride)}}

\* the configurations a file can hold
Configs ==
    UNION {{Config(f) : f \in [names -> RuleConfigs]} :
               names \in SUBSET ConfigNames}

MaxLineLen == 2

LineChars == {" ", "+", "-", "0", "1", "2", "3", "x"}

\* what read_line can read: a line with its newline, or what was left
\* before the end of the input
Lines ==
    LET bodies == UNION {[1..k -> LineChars] : k \in 0..MaxLineLen}
    IN  bodies \cup {Append(b, "\n") : b \in bodies}

MainInit ==
    /\ registry = <<>>
    /\ added = <<>>
    /\ command \in MainCommands
    /\ overflow_checks \in BOOLEAN
    /\ pc = "unused"
    /\ call = "none"
    /\ evaluated = {}
    /\ invoked = <<>>
    /\ produced = <<>>
    /\ order = <<>>
    /\ corrections = <<>>
    /\ best = None
    /\ previous = <<>>
    /\ previous_order = <<>>
    /\ runs = 0
    /\ rule = CustomRule("test", TRUE, <<>>, DefaultPriority, TRUE, TRUE)
    /\ score = NoScore
    /\ upc = "unused"
    /\ new_commands = <<>>
    /\ corrected_commands = <<>>
    /\ matched = None
    /\ builder = NoBuilder
    /\ bpc = "unused"
    /\ built = None
    /\ calls = NoCalls
    /\ config = None
    /\ no_interaction \in BOOLEAN
    /\ stdin = None
    /\ stdout = <<>>
    /\ exit_status = None
    /\ mpc = "start"

\* what a step of main leaves alone besides the variables it names
MainFrame ==
    /\ UNCHANGED <<added, command, overflow_checks, pc, call, evaluated,
                   invoked, produced, order, best, previous, previous_order,
                   runs, no_interaction>>
    /\ UNCHANGED <<unit_vars, builder_vars>>

\* std::process::exit(code), and main returning Err (exit status 1)
exit(code) ==
    /\ exit_status' = Some(code)
    /\ mpc' = "exited"

\* println!("{}", script)
println(script) == stdout' = Append(stdout, script)

\* --config given: Config::load_from_file(path)?, the file missing (the
\* default configuration), holding a configuration, or not to be read or
\* parsed (main returns the error)
load_from_file(result) ==
    /\ mpc = "start"
    /\ IF result = None
       THEN exit(1) /\ UNCHANGED config
       ELSE config' = result /\ mpc' = "configured" /\ UNCHANGED exit_status
    /\ UNCHANGED <<registry, corrections, stdin, stdout>>
    /\ MainFrame

\* no --config: Config::load_default().unwrap_or_default()
load_default(result) ==
    /\ mpc = "start"
    /\ config' = IF result = None THEN Some(DefaultConfig) ELSE result
    /\ mpc' = "configured"
    /\ UNCHANGED <<registry, corrections, stdin, stdout, exit_status>>
    /\ MainFrame

\* registry.add_rules(filter_rules_by_config(group, &config))
register(at, group, next) ==
    /\ mpc = at
    /\ registry' = extend(registry, filter_rules_by_config(group, config[1]))
    /\ mpc' = next
    /\ UNCHANGED <<config, corrections, stdin, stdout, exit_status>>
    /\ MainFrame

add_git_rules ==
    register("configured",
             git_branch_rules \o git_push_pull_rules \o git_staging_rules,
             "git_added")

add_filesystem_rules ==
    register("git_added", filesystem_rules, "filesystem_added")

add_permission_rules ==
    register("filesystem_added", permission_rules, "permissions_added")

add_package_manager_rules ==
    register("permissions_added", package_manager_rules, "registered")

\* let corrector: Corrector = registry.into();
\* let corrections = corrector.get_corrections(&cmd);
main_get_corrections ==
    /\ mpc = "registered"
    /\ corrections' = get_corrections(registry, command)
    /\ mpc' = "corrected"
    /\ UNCHANGED <<registry, config, stdin, stdout, exit_status>>
    /\ MainFrame

\* match corrections.len(): 0
no_corrections ==
    /\ mpc = "corrected"
    /\ Len(corrections) = 0
    /\ exit(1)
    /\ UNCHANGED <<registry, corrections, config, stdin, stdout>>
    /\ MainFrame

\* match corrections.len(): 1, and the other lengths with --no-interaction
print_first ==
    /\ mpc = "corrected"
    /\ Len(corrections) = 1 \/ (Len(corrections) > 1 /\ no_interaction)
    /\ println(corrections[1].script)
    /\ exit(0)
    /\ UNCHANGED <<registry, corrections, config, stdin>>
    /\ MainFrame

\* match corrections.len(): the other lengths, interactive; read is what
\* read_line does
select_interactive(read) ==
    /\ mpc = "corrected"
    /\ Len(corrections) > 1 /\ ~no_interaction
    /\ stdin' = Some(read)
    /\ LET selected == select_correction_interactive(corrections, read)
       IN  IF selected # None
           THEN println(selected[1]) /\ exit(0)
           ELSE exit(1) /\ UNCHANGED stdout
    /\ UNCHANGED <<registry, corrections, config>>
    /\ MainFrame

MainNext ==
    \/ \E result \in {None} \cup {Some(cfg) : cfg \in Configs} :
           load_from_file(result)
    \/ \E result \in {None} \cup {Some(cfg) : cfg \in Configs} :
           load_default(result)
    \/ add_git_rules
    \/ add_filesystem_rules
    \/ add_permission_rules
    \/ add_package_manager_rules
    \/ main_get_corrections
    \/ no_corrections
    \/ print_first
    \/ \E read \in {ReadErr} \cup {ReadOk(line) : line \in Lines} :
           select_interactive(read)

MainSpec == MainInit /\ [][MainNext]_vars


\* every rule main offers to the registry, in the order of the offers
AllRules ==
    git_branch_rules \o git_push_pull_rules \o git_staging_rules
    \o filesystem_rules \o permission_rules \o package_manager_rules

\* the configuration has an entry for the name, and it says enabled = false
ConfiguredOff(name) ==
    \E n \in DOMAIN config[1].rules :
        n = name /\ config[1].rules[n].enabled = FALSE

\* the places in AllRules of the rules not configured off
Kept == {i \in 1..Len(AllRules) : ~ConfiguredOff(AllRules[i].name)}

\* the j-th of the places kept, counted from the front
KeptAt(j) == CHOOSE k \in Kept : Cardinality({i \in Kept : i <= k}) = j

\* C24: filter_rules_by_config returns exactly those input rules whose
\* name is not configured with enabled = false, in their original
\* relative order; a rule whose name has no entry in the configuration is
\* kept.
FilterKeepsRulesNotConfiguredOff ==
    (config # None /\ mpc = "registered") =>
        /\ Len(registry) = Cardinality(Kept)
        /\ \A j \in 1..Len(registry) : registry[j] = AllRules[KeptAt(j)]
        /\ \A i \in 1..Len(AllRules) :
               AllRules[i].name \notin DOMAIN config[1].rules =>
                   \E j \in 1..Len(registry) : registry[j] = AllRules[i]

\* one rule is configured off and gone, one has an entry that leaves it
\* enabled, the others have no entry; an entry names no rule at all
FilterWitness ==
    /\ config # None /\ mpc = "registered"
    /\ DOMAIN config[1].rules = ConfigNames
    /\ ~config[1].rules["chmod_execute"].enabled
    /\ config[1].rules["sudo_permission_denied"].enabled
    /\ Len(registry) = Len(AllRules) - 1
    /\ \A j \in 1..Len(registry) : registry[j].name # "chmod_execute"

\* the registry with each overridden priority in the place of the rule's
OverriddenRules ==
    [i \in 1..Len(registry) |->
        LET p == get_rule_priority(config[1], registry[i].name)
        IN  IF p = None THEN registry[i]
            ELSE [registry[i] EXCEPT !.priority = p[1]]]

Scripts(cs) == [i \in 1..Len(cs) |-> cs[i].script]

\* C25: when the configuration sets a priority override for a rule name,
\* the candidates of that rule are ranked by the program using the
\* overriding priority instead of the rule's built-in priority.
PriorityOverrideRanksCandidates ==
    (config # None /\ mpc \in {"corrected", "exited"}) =>
        Scripts(corrections) = Scripts(get_corrections(OverriddenRules, command))

\* an override was configured for a rule that produced a candidate
PriorityOverrideWitness ==
    /\ config # None /\ mpc = "corrected"
    /\ Len(corrections) > 1
    /\ \E i \in 1..Len(registry) :
           /\ get_rule_priority(config[1], registry[i].name) # None
           /\ rule_filter(registry[i], command)

\* the texts for the integer k: an optional "+", zeros, the decimal digits
Numerals(k) ==
    {sign \o [i \in 1..z |-> "0"] \o Decimal(k) :
        sign \in {<<>>, <<"+">>}, z \in 0..(MaxLineLen + 1)}

\* the line, white space at both ends aside, is a text for the integer k
ParsesTo(line, k) ==
    \E a, b \in 0..Len(line) :
        /\ a <= b
        /\ \A i \in 1..a : line[i] \in Whitespace
        /\ \A i \in (b + 1)..Len(line) : line[i] \in Whitespace
        /\ SubSeq(line, a + 1, b) \in Numerals(k)

\* the integers from 1 to n the line read parses to
Chosen(n) ==
    IF stdin = None \/ ~stdin[1].ok THEN {}
    ELSE {k \in 1..n : ParsesTo(stdin[1].line, k)}

OutOfRangeWitness ==
    /\ mpc = "exited"
    /\ Len(corrections) = 2 /\ ~no_interaction
    /\ stdin = Some(ReadOk(<<"3", "\n">>))
    /\ stdout = <<>> /\ exit_status = Some(1)


\* C28: no candidate is lost by the pipeline: for every candidate produced
\* by a non-gated matching rule, the result of get_corrections contains an
\* element with the same (script, side_effect) pair, and the result has at
\* most as many elements as candidates were produced.
NoCandidateIsLost ==
    Returned =>
        /\ \A i \in DOMAIN registry :
               (~Gated(i) /\ matches(registry[i], command)) =>
                   LET cs == get_corrected_commands(registry[i], command)
                   IN  /\ produced[i] = cs
                       /\ \A k \in DOMAIN cs :
                              \E j \in DOMAIN corrections :
                                  /\ corrections[j].script = cs[k].script
                                  /\ corrections[j].side_effect = cs[k].side_effect
        /\ Len(corrections) <= Len(Candidates)

\* two rules produced three candidates, two of them with one script and
\* two of them with one priority; the result has both scripts
NoCandidateIsLostWitness ==
    /\ Returned
    /\ Len(registry) = 2
    /\ Len(Candidates) = 3
    /\ Len(corrections) = 2
    /\ corrections[1].script # corrections[2].script
    /\ \E a, b \in DOMAIN Candidates :
           /\ a # b
           /\ Candidates[a].priority = Candidates[b].priority
           /\ Candidates[a].script # Candidates[b].script


\* C29: for every rule priority p in the i32 range and every candidate
\* index i, the priority assigned by get_corrected_commands equals the
\* mathematical value (i+1)*p: the 32-bit multiplication never overflows,
\* wraps around or aborts the evaluation.
MultiplicationStaysInRange ==
    /\ upc # "panicked"
    /\ upc = "corrected_commands_returned" =>
           \A i \in DOMAIN corrected_commands :
               IsProduct(corrected_commands[i].priority, i, rule.priority)


-----------------------------------------------------------------------------
(* MixedSpec: the corrector over rules of every kind, rules that are not   *)
(* enabled by default among them.  No priority here can overflow.          *)

\* RuleRegistry::enabled_rules: iter().filter(enabled_by_default).collect()
enabled_rules(v) == SelectSeq(v, LAMBDA r : r.enabled_by_default)

\* Corrector::rules
Corrector_rules(v) == enabled_rules(v)

\* implementations of the trait with either answer of matches, of
\* requires_output and of enabled_by_default
MixedCustomRules ==
    {CustomRule("custom", m, <<<<"c">>>>, 100, g, e) :
        m \in BOOLEAN, g \in BOOLEAN, e \in BOOLEAN}

\* SimpleRuleBuilder: a rule with only a script pattern, and one with both
MixedSimpleRules ==
    {SimpleRule("simple", Some(<<"X">>), out, Some(<< <<"X">>, <<>> >>), 150) :
        out \in {None, Some(<<"e">>)}}

\* RegexRuleBuilder: new, one pattern setter, replace_simple
MixedRegexRules ==
    {RegexRuleBuilder_replace_simple(
         RegexRuleBuilder_match_command_regex(
             RegexRuleBuilder_new("regex"), <<"a", "(", "[a-z]+", ")">>)[1],
         <<"$", "1">>)[1],
     RegexRuleBuilder_replace_simple(
         RegexRuleBuilder_match_output_regex(
             RegexRuleBuilder_new("regex"), <<"e">>)[1],
         <<"r">>)[1]}

\* FuzzyRuleBuilder: new, match_command, replace, build
MixedFuzzyRules ==
    {FuzzyRuleBuilder_build(
         FuzzyRuleBuilder_replace(
             FuzzyRuleBuilder_match_command(
                 FuzzyRuleBuilder_new("fuzzy"), <<"a", "x">>),
             <<"f">>))[1]}

BuilderRules == MixedSimpleRules \cup MixedRegexRules \cup MixedFuzzyRules

MixedRules == MixedCustomRules \cup BuilderRules

MixedCommands ==
    {Command(<<"a", "b", "X">>, out, 1) : out \in {<<>>, <<"e">>}}

\* the scorer finds the script close to the target, or not at all
MixedScores == {NoScore, [script |-> Some(MaxThreshold), output |-> None]}

MixedInit ==
    /\ registry = <<>>
    /\ added = <<>>
    /\ command \in MixedCommands
    /\ overflow_checks \in BOOLEAN
    /\ pc = "registry"
    /\ call = "none"
    /\ evaluated = {}
    /\ invoked = <<>>
    /\ produced = <<>>
    /\ order = <<>>
    /\ corrections = <<>>
    /\ best = None
    /\ previous = <<>>
    /\ previous_order = <<>>
    /\ runs = 0
    /\ rule = CustomRule("test", TRUE, <<>>, DefaultPriority, TRUE, TRUE)
    /\ score \in MixedScores
    /\ upc = "unused"
    /\ new_commands = <<>>
    /\ corrected_commands = <<>>
    /\ matched = None
    /\ builder = NoBuilder
    /\ bpc = "unused"
    /\ built = None
    /\ calls = NoCalls
    /\ config = None
    /\ no_interaction = FALSE
    /\ stdin = None
    /\ stdout = <<>>
    /\ exit_status = None
    /\ mpc = "unused"

\* get_corrections never panics here: the priorities are small
MixedNext ==
    \/ \E r \in MixedRules : add_rule(r)
    \/ into_corrector
    \/ \E entry \in {"get_corrections", "get_best_correction"} : enter(entry)
    \/ \E i \in 1..MaxRules : evaluate_rule(i)
    \/ return_corrections

MixedSpec == MixedInit /\ [][MixedNext]_vars

\* rule i is not enabled by default, not gated, and matches the command
DisabledAndApplies(i) ==
    /\ ~registry[i].enabled_by_default
    /\ ~Gated(i)
    /\ matches(registry[i], command)

\* C27: get_corrections evaluates every rule held by the registry,
\* including rules whose enabled_by_default() is false: such a rule, when
\* non-gated and matching, contributes candidates to the result even
\* though Corrector::rules() and RuleRegistry::enabled_rules() leave it
\* out.
DisabledRulesAreEvaluated ==
    /\ \A k \in DOMAIN Corrector_rules(registry) :
           Corrector_rules(registry)[k].enabled_by_default
    /\ Len(Corrector_rules(registry)) =
           Cardinality({i \in DOMAIN registry : registry[i].enabled_by_default})
    /\ Corrector_rules(registry) = enabled_rules(registry)
    /\ Returned =>
           /\ evaluated = DOMAIN registry
           /\ \A i \in DOMAIN registry :
                  /\ invoked[i] # <<>>
                  /\ DisabledAndApplies(i) =>
                         /\ produced[i] = get_corrected_commands(registry[i], command)
                         /\ produced[i] # <<>>
                         /\ \A k \in DOMAIN produced[i] :
                                \E j \in DOMAIN corrections :
                                    eq(corrections[j], produced[i][k])

\* the only rule of the registry is not enabled by default: rules() is
\* empty and the result is the rule's candidate
DisabledRuleWitness ==
    /\ Returned
    /\ Len(registry) = 1
    /\ DisabledAndApplies(1)
    /\ Corrector_rules(registry) = <<>>
    /\ Len(corrections) = 1
    /\ corrections[1].script = <<"c">>

\* C30: every rule produced by the literal, regex and fuzzy builders
\* reports requires_output() == true and enabled_by_default() == true, so
\* through get_corrections no builder-produced rule, even one with only a
\* script pattern or target whose own matches() is true, contributes a
\* candidate for a command with empty output.
BuilderRulesNeedOutput ==
    /\ \A r \in BuilderRules : r.requires_output /\ r.enabled_by_default
    /\ \A i \in DOMAIN registry :
           registry[i].kind \in {"simple", "regex", "fuzzy"} =>
               /\ registry[i].requires_output
               /\ registry[i].enabled_by_default
               /\ (command.output = <<>> /\ i \in DOMAIN produced) =>
                      produced[i] = <<>>
    /\ (Returned /\ command.output = <<>>) =>
           \A j \in DOMAIN corrections :
               \E i \in DOMAIN registry :
                   /\ registry[i].kind = "custom"
                   /\ \E k \in DOMAIN produced[i] : eq(produced[i][k], corrections[j])

\* the output is empty; a literal rule and a fuzzy rule, each with a
\* script pattern only, match the command and have a candidate for it,
\* and the result is empty
BuilderRulesWitness ==
    /\ Returned
    /\ command.output = <<>>
    /\ Len(registry) = 2
    /\ registry[1].kind = "simple" /\ registry[2].kind = "fuzzy"
    /\ \A i \in {1, 2} :
           /\ registry[i].match_out = None
           /\ matches(registry[i], command)
           /\ get_new_commands(registry[i], command) # <<>>
    /\ corrections = <<>>

\* as before with a regex rule that has a script pattern only
RegexRuleWitness ==
    /\ Returned
    /\ command.output = <<>>
    /\ Len(registry) = 1
    /\ registry[1].kind = "regex" /\ registry[1].match_out = None
    /\ matches(registry[1], command)
    /\ get_new_commands(registry[1], command) # <<>>
    /\ corrections = <<>>

=============================================================================
